---- MODULE Spec2Model ----
(***************************************************************************)
(* State-machine model of AZ::IO::ZipDir::CacheFactory                     *)
(* (Code/Framework/AzFramework/AzFramework/Archive/ZipDirCacheFactory.cpp).*)
(* Files are byte strings; the factory reads them through Seek/Tell/Read   *)
(* and decodes the little-endian PKZIP records exactly as the code does.   *)
(* Every size, offset and 32-bit field of the files modelled is below 2^31 *)
(* (the range of TLC's integers), so no 32-bit sum wraps and the 2 GB      *)
(* check of FindCDREnd (lines 341-346) never fires.  An operation is a     *)
(* function on the record of the program's variables, written as the       *)
(* composition of the steps of its code.                                   *)
(***************************************************************************)
EXTENDS Integers, Sequences, FiniteSets, TLC

(***************************************************************************)
(* Bounds of the model                                                     *)
(***************************************************************************)
MaxNewCalls == 2
MaxIoFaults == 1

(***************************************************************************)
(* Program constants                                                       *)
(***************************************************************************)
CDRSearchWindowSize == 256
SizeofCDREnd == 22
SizeofCDRFileHeader == 46
SizeofLocalFileHeader == 30
SizeofExtendedHeader == 6
SizeofEncryptionHeader == 10
SizeofSignedCDRHeader == 12
SizeofExtraFieldHeader == 4
SizeofExtraNTFSHeader == 8
MaxCommentLength == 65535
CDRBufferSlack == 16
InvalidHandle == 0
\* the all-ones word, kept apart from every offset the model can hold
INVALID_DATA_OFFSET == -1

TwoPow8 == 256
TwoPow16 == 65536
\* CDREnd::nDisk & 0xC000 is the field's value divided by 2^14, & 0x3fff what is left
LegacyShift == 16384

HEADERS_NOT_ENCRYPTED == 0
HEADERS_ENCRYPTED_STREAMCIPHER == 1
HEADERS_ENCRYPTED_TEA == 2
HEADERS_ENCRYPTED_STREAMCIPHER_KEYTABLE == 3
HEADERS_NOT_SIGNED == 0
HEADERS_CDR_SIGNED == 1

METHOD_STORE == 0
METHOD_DEFLATE == 8
METHOD_STORE_AND_STREAMCIPHER_KEYTABLE == 13
EXTRA_NTFS == 10

ZD_INIT_FAST == 0
ZD_INIT_FULL == 1
ZD_INIT_VALIDATE == 3

\* the characters the parser treats specially
ChSlash == 47
ChBackslash == 92
ChUpperA == 65
ChUpperZ == 90
CaseOffset == 32

(***************************************************************************)
(* Little-endian bytes                                                     *)
(***************************************************************************)
LE16(n) == << n % TwoPow8, (n \div TwoPow8) % TwoPow8 >>

LE32(n) == LE16(n % TwoPow16) \o LE16((n \div TwoPow16) % TwoPow16)

\* the byte at 0-based index i of a byte string
ByteAt(buf, i) == buf[i + 1]

U16At(buf, i) == ByteAt(buf, i) + TwoPow8 * ByteAt(buf, i + 1)

\* a uint32; a value of 2^31 and above is held as the negative integer that
\* has the same 32 bits
U32At(buf, i) ==
    U16At(buf, i)
        + TwoPow16 * (IF U16At(buf, i + 2) >= (TwoPow16 \div 2)
                      THEN U16At(buf, i + 2) - TwoPow16
                      ELSE U16At(buf, i + 2))

\* a > b for two uint32
Above32(a, b) == IF (a < 0) = (b < 0) THEN a > b ELSE a < 0

\* a + b in uint32 arithmetic, computed in halves of 16 bits
Add32Halves(lo, hi) ==
    (lo % TwoPow16)
        + TwoPow16 * (IF ((hi + (lo \div TwoPow16)) % TwoPow16) >= (TwoPow16 \div 2)
                      THEN ((hi + (lo \div TwoPow16)) % TwoPow16) - TwoPow16
                      ELSE (hi + (lo \div TwoPow16)) % TwoPow16)

Add32(a, b) ==
    Add32Halves((a % TwoPow16) + (b % TwoPow16),
                (a \div TwoPow16) + (b \div TwoPow16))

Zeros(n) == [k \in 1..n |-> 0]

\* buf with data stored at 0-based index at
Overlay(buf, at, data) ==
    [k \in 1..Len(buf) |->
        IF k - 1 >= at /\ k - 1 < at + Len(data) THEN data[k - at] ELSE buf[k]]

\* the n bytes of buf from 0-based index at
Slice(buf, at, n) == [k \in 1..n |-> buf[at + k]]

\* PK\5\6, PK\1\2 and PK\3\4
CDREndSignature == << 80, 75, 5, 6 >>
CDRFileSignature == << 80, 75, 1, 2 >>
LocalFileSignature == << 80, 75, 3, 4 >>

(***************************************************************************)
(* Files: a size and byte patches over a zero background                   *)
(***************************************************************************)
Patch(off, bytes) == [off |-> off, bytes |-> bytes]

MkFile(size, patches) == [present |-> TRUE, size |-> size, patches |-> patches]

\* what the disk holds under a name no file has
NoFile == [present |-> FALSE, size |-> 0, patches |-> << >>]

Covering(f, i) ==
    {k \in 1..Len(f.patches) :
        i >= f.patches[k].off /\ i < f.patches[k].off + Len(f.patches[k].bytes)}

Max(S) == CHOOSE x \in S : \A y \in S : y <= x

\* the byte at offset i of file f (later patches overwrite earlier ones)
FileByte(f, i) ==
    LET c == Covering(f, i)
    IN  IF c = {} THEN 0
        ELSE LET p == f.patches[Max(c)] IN p.bytes[i - p.off + 1]

FileBytes(f, pos, n) == [k \in 1..n |-> FileByte(f, pos + k - 1)]

(***************************************************************************)
(* Encoders of the on-disk records (the inputs the factory is run on)      *)
(***************************************************************************)
MkCDREnd(nDisk, nCDRStartDisk, numEntriesOnDisk, numEntriesTotal,
         lCDRSize, lCDROffset, nCommentLength) ==
    CDREndSignature \o LE16(nDisk) \o LE16(nCDRStartDisk)
        \o LE16(numEntriesOnDisk) \o LE16(numEntriesTotal)
        \o LE32(lCDRSize) \o LE32(lCDROffset) \o LE16(nCommentLength)

\* an archive member: the CDR record's fields and the local header's fields
MkEntry(name, method, crc, comp, uncomp) ==
    [name |-> name, lname |-> name, method |-> method, lmethod |-> method,
     crc |-> crc, comp |-> comp, uncomp |-> uncomp, lcomp |-> comp,
     ver |-> 20, extra |-> << >>, lextra |-> << >>, clen |-> 0,
     nameLen |-> Len(name), lhoDelta |-> 0]

MkLocalFileHeader(e) ==
    LocalFileSignature \o LE16(e.ver) \o LE16(0) \o LE16(e.lmethod)
        \o LE16(0) \o LE16(0)
        \o LE32(e.crc) \o LE32(e.lcomp) \o LE32(e.uncomp)
        \o LE16(Len(e.lname)) \o LE16(Len(e.lextra))
        \o e.lname \o e.lextra \o Zeros(e.lcomp)

MkCDRFileHeader(e, lLocalHeaderOffset) ==
    CDRFileSignature \o LE16(20) \o LE16(e.ver) \o LE16(0) \o LE16(e.method)
        \o LE16(0) \o LE16(0)
        \o LE32(e.crc) \o LE32(e.comp) \o LE32(e.uncomp)
        \o LE16(e.nameLen) \o LE16(Len(e.extra)) \o LE16(e.clen)
        \o LE16(0) \o LE16(0) \o LE32(0) \o LE32(lLocalHeaderOffset)
        \o e.name \o e.extra \o Zeros(e.clen)

RECURSIVE LocalPart(_)
LocalPart(es) ==
    IF es = << >> THEN << >>
    ELSE LocalPart(SubSeq(es, 1, Len(es) - 1)) \o MkLocalFileHeader(es[Len(es)])

RECURSIVE CDRPart(_, _)
CDRPart(es, n) ==
    IF n = 0 THEN << >>
    ELSE CDRPart(es, n - 1)
            \o MkCDRFileHeader(es[n],
                   Len(LocalPart(SubSeq(es, 1, n - 1))) + es[n].lhoDelta)

MkExtendedHeader(nHeaderSize, nEncryption, nSigning) ==
    LE16(nHeaderSize) \o LE16(nEncryption) \o LE16(nSigning)

MkSignedCDRHeader(nHeaderSize) ==
    LE16(nHeaderSize) \o Zeros(SizeofSignedCDRHeader - 2)

\* members, then the CDR, gap bytes, the CDREnd record and the comment area
MkArchive(es, nDisk, gap, comment) ==
    LET lp == LocalPart(es)
        cp == CDRPart(es, Len(es))
    IN  lp \o cp \o Zeros(gap)
           \o MkCDREnd(nDisk, 0, Len(es), Len(es), Len(cp), Len(lp), Len(comment))
           \o comment

WholeFile(bytes) == MkFile(Len(bytes), << Patch(0, bytes) >>)

\* a file of the given bytes with some of them overwritten
Mutated(bytes, patches) == MkFile(Len(bytes), << Patch(0, bytes) >> \o patches)

(***************************************************************************)
(* The files on disk.  Names are the indices of Catalog; name 0 is a file  *)
(* that does not exist.                                                    *)
(***************************************************************************)
NameA == << 65, 46, 84, 88, 84 >>                \* A.TXT
NameDir == << 100, 47 >>                         \* d/
NameB == << 100, 92, 66, 46, 98, 105, 110 >>     \* d\B.bin
NameC == << 99, 46, 98, 105, 110 >>              \* c.bin
NameD == << 68, 92, 69, 47, 70, 46, 84, 88 >>    \* D\E/F.TX

EntryA == MkEntry(NameA, METHOD_STORE, 7, 5, 5)
EntryDir == MkEntry(NameDir, METHOD_STORE, 0, 0, 0)
EntryB == MkEntry(NameB, METHOD_DEFLATE, 9, 3, 8)
EntryC == MkEntry(NameC, METHOD_DEFLATE, 11, 4, 9)
EntryD == MkEntry(NameD, METHOD_DEFLATE, 13, 2, 6)

\* the bits of CDREnd::nDisk that older archives used for the encryption
LegacyBits(headerEnc) == headerEnc * LegacyShift

OneMember == MkArchive(<< EntryA >>, 0, 0, << >>)

\* one member and the given comment area
Trailed(comment) == MkArchive(<< EntryA >>, 0, 0, comment)

PlainTrailer ==
    MkExtendedHeader(SizeofExtendedHeader, HEADERS_NOT_ENCRYPTED, HEADERS_NOT_SIGNED)

ArchiveCatalog ==
    << \* 1: an empty file
       MkFile(0, << >>),
       \* 2: only a CDREnd record
       WholeFile(MkArchive(<< >>, 0, 0, << >>)),
       \* 3: one stored member
       WholeFile(OneMember),
       \* 4: a member, a directory record and a member
       WholeFile(MkArchive(<< EntryA, EntryDir, EntryB >>, 0, 0, << >>)),
       \* 5: the second record needs version 4.5
       WholeFile(MkArchive(<< EntryA, [EntryC EXCEPT !.ver = 45] >>, 0, 0, << >>)),
       \* 6: the second record's name runs past the end of the CDR
       WholeFile(MkArchive(<< EntryA, [EntryC EXCEPT !.nameLen = 200] >>, 0, 0, << >>)),
       \* 7: a stored member whose sizes differ
       WholeFile(MkArchive(<< [EntryA EXCEPT !.uncomp = 6], EntryC >>, 0, 0, << >>)),
       \* 8: a record whose local header would lie behind the CDR
       WholeFile(MkArchive(<< [EntryA EXCEPT !.lhoDelta = 1000], EntryC >>, 0, 0, << >>)),
       \* 9: a local header that names another method than the CDR record
       WholeFile(MkArchive(<< [EntryC EXCEPT !.lmethod = METHOD_STORE] >>, 0, 0, << >>)),
       \* 10: a local header whose extra field would end behind the CDREnd record
       Mutated(OneMember, << Patch(28, LE16(1000)) >>),
       \* 11: legacy TEA bits and an extended header naming the key table cipher
       WholeFile(MkArchive(<< EntryA >>, LegacyBits(HEADERS_ENCRYPTED_TEA), 0,
                     MkExtendedHeader(SizeofExtendedHeader,
                         HEADERS_ENCRYPTED_STREAMCIPHER_KEYTABLE, HEADERS_NOT_SIGNED)
                         \o Zeros(SizeofEncryptionHeader))),
       \* 12: legacy TEA bits only
       WholeFile(MkArchive(<< EntryA >>, LegacyBits(HEADERS_ENCRYPTED_TEA), 0, << >>)),
       \* 13: a signed archive
       WholeFile(MkArchive(<< EntryA >>, 0, 0,
                     MkExtendedHeader(SizeofExtendedHeader,
                         HEADERS_NOT_ENCRYPTED, HEADERS_CDR_SIGNED)
                         \o MkSignedCDRHeader(SizeofSignedCDRHeader))),
       \* 14: the second volume of a multivolume archive
       WholeFile(MkArchive(<< EntryA >>, 1, 0, << >>)),
       \* 15: a CDREnd record whose CDR offset lies behind it
       Mutated(OneMember, << Patch(Len(OneMember) - SizeofCDREnd + 16, LE32(5000)) >>),
       \* 16: no CDREnd record
       MkFile(40, << >>),
       \* 17: legacy stream cipher bits, the key table cipher and a signature
       WholeFile(MkArchive(<< EntryA >>, LegacyBits(HEADERS_ENCRYPTED_STREAMCIPHER), 0,
                     MkExtendedHeader(SizeofExtendedHeader,
                         HEADERS_ENCRYPTED_STREAMCIPHER_KEYTABLE, HEADERS_CDR_SIGNED)
                         \o Zeros(SizeofEncryptionHeader)
                         \o MkSignedCDRHeader(SizeofSignedCDRHeader))),
       \* 18: an extended header that names no encryption and no signature
       WholeFile(Trailed(PlainTrailer)),
       \* 19: an extended header whose nHeaderSize is one too big
       WholeFile(Trailed(MkExtendedHeader(SizeofExtendedHeader + 1,
                     HEADERS_NOT_ENCRYPTED, HEADERS_NOT_SIGNED))),
       \* 20: an extended header that names the TEA encryption
       WholeFile(Trailed(MkExtendedHeader(SizeofExtendedHeader,
                     HEADERS_ENCRYPTED_TEA, HEADERS_NOT_SIGNED))),
       \* 21: an extended header that names a signing technique nobody knows
       WholeFile(Trailed(MkExtendedHeader(SizeofExtendedHeader,
                     HEADERS_NOT_ENCRYPTED, HEADERS_CDR_SIGNED + 1))),
       \* 22: the comment is one byte longer than the extended header
       WholeFile(Trailed(PlainTrailer \o << 0 >>)),
       \* 23: a signed archive whose signature header has a wrong nHeaderSize
       WholeFile(Trailed(MkExtendedHeader(SizeofExtendedHeader,
                     HEADERS_NOT_ENCRYPTED, HEADERS_CDR_SIGNED)
                     \o MkSignedCDRHeader(SizeofSignedCDRHeader + 1))),
       \* 24: the key table cipher, named by the extended header alone
       WholeFile(Trailed(MkExtendedHeader(SizeofExtendedHeader,
                     HEADERS_ENCRYPTED_STREAMCIPHER_KEYTABLE, HEADERS_NOT_SIGNED)
                     \o Zeros(SizeofEncryptionHeader))),
       \* 25: the key table cipher named, its header missing
       WholeFile(Trailed(MkExtendedHeader(SizeofExtendedHeader,
                     HEADERS_ENCRYPTED_STREAMCIPHER_KEYTABLE, HEADERS_NOT_SIGNED))),
       \* 26: the key table cipher and a signature; the encryption header starts
       \* with the bytes of a good nHeaderSize, the signature header's is wrong
       WholeFile(Trailed(MkExtendedHeader(SizeofExtendedHeader,
                     HEADERS_ENCRYPTED_STREAMCIPHER_KEYTABLE, HEADERS_CDR_SIGNED)
                     \o LE16(SizeofSignedCDRHeader) \o Zeros(SizeofEncryptionHeader - 2)
                     \o MkSignedCDRHeader(SizeofSignedCDRHeader + 1))),
       \* 27: the key table cipher and a signature, both headers as they should be
       WholeFile(Trailed(MkExtendedHeader(SizeofExtendedHeader,
                     HEADERS_ENCRYPTED_STREAMCIPHER_KEYTABLE, HEADERS_CDR_SIGNED)
                     \o Zeros(SizeofEncryptionHeader)
                     \o MkSignedCDRHeader(SizeofSignedCDRHeader))),
       \* 28: the CDR starts on another volume
       Mutated(OneMember, << Patch(Len(OneMember) - SizeofCDREnd + 6, LE16(1)) >>),
       \* 29: more records in the whole CDR than on this volume
       Mutated(OneMember, << Patch(Len(OneMember) - SizeofCDREnd + 10, LE16(2)) >>),
       \* 30: the second volume, with legacy TEA bits
       WholeFile(MkArchive(<< EntryA >>, LegacyBits(HEADERS_ENCRYPTED_TEA) + 1, 0, << >>)),
       \* 31: the second volume, with an extended header
       WholeFile(MkArchive(<< EntryA >>, 1, 0, PlainTrailer)),
       \* 32: the second volume, with an extended header whose nHeaderSize is wrong
       WholeFile(MkArchive(<< EntryA >>, 1, 0,
                     MkExtendedHeader(SizeofExtendedHeader + 1,
                         HEADERS_NOT_ENCRYPTED, HEADERS_NOT_SIGNED))),
       \* 33: one volume, both of the bits older archives used set
       WholeFile(MkArchive(<< EntryA >>,
                     LegacyBits(HEADERS_ENCRYPTED_STREAMCIPHER_KEYTABLE), 0, << >>)),
       \* 34: a record with an extra field and a comment, then a record
       WholeFile(MkArchive(<< [EntryB EXCEPT !.extra = << 1, 0, 2, 0, 9, 9 >>,
                                             !.clen = 3],
                              EntryA >>, 0, 0, << >>)),
       \* 35: a record without a name, then a record
       WholeFile(MkArchive(<< [EntryA EXCEPT !.name = << >>, !.lname = << >>,
                                             !.nameLen = 0],
                              EntryC >>, 0, 0, << >>)),
       \* 36: capitals and both separators in a name; the last record has a comment
       WholeFile(MkArchive(<< EntryD, EntryDir, [EntryB EXCEPT !.clen = 2] >>,
                           0, 0, << >>)),
       \* 37: a record whose local header would lie where the CDR starts
       WholeFile(MkArchive(<< [EntryA EXCEPT !.lhoDelta = Len(LocalPart(<< EntryA >>))] >>,
                           0, 0, << >>)),
       \* 38: a record whose local header would lie at offset 0xFFFFFFFF
       WholeFile(MkArchive(<< [EntryA EXCEPT !.lhoDelta = -1], EntryC >>, 0, 0, << >>)),
       \* 39: a member whose local header has an extra field of four bytes
       WholeFile(MkArchive(<< [EntryA EXCEPT !.lextra = << 1, 0, 0, 0 >>] >>,
                           0, 0, << >>)),
       \* 40: an extended header, and three bytes between the CDR and the record
       WholeFile(MkArchive(<< EntryA >>, 0, 3, PlainTrailer)),
       \* 41: the last record's extra field is the one byte 0x0a, the CDR's last
       WholeFile(MkArchive(<< [EntryA EXCEPT !.extra = << 10 >>] >>, 0, 0, << >>)),
       \* 42: a record with a whole NTFS extra field: reserved, tag 1 of 24 bytes,
       \* the three times
       WholeFile(MkArchive(<< [EntryA EXCEPT !.extra =
                                  << 10, 0, 32, 0, 0, 0, 0, 0, 1, 0, 24, 0 >>
                                  \o << 1, 2, 3, 4, 5, 6, 7, 8 >> \o Zeros(16)] >>,
                           0, 0, << >>)),
       \* 43: legacy TEA bits, and an extended header that names no encryption
       \* and a signature
       WholeFile(MkArchive(<< EntryA >>, LegacyBits(HEADERS_ENCRYPTED_TEA), 0,
                     MkExtendedHeader(SizeofExtendedHeader,
                         HEADERS_NOT_ENCRYPTED, HEADERS_CDR_SIGNED)
                         \o MkSignedCDRHeader(SizeofSignedCDRHeader)))
    >>

\* a file of the given size with one CDREnd record at offset p
OneRecord(size, p, nCommentLength) ==
    MkFile(size, << Patch(p, MkCDREnd(0, 0, 0, 0, 0, 0, nCommentLength)) >>)

\* the lowest offset FindCDREnd scans in a file of the given size
LowestScanned(size) ==
    IF size > SizeofCDREnd + MaxCommentLength
    THEN size - SizeofCDREnd - MaxCommentLength ELSE 0

BigSize == 70000
\* the largest size the model's integers hold, 2^31 - 1
MaxSize == TwoPow16 * 32767 + 65535

ScanCatalog ==
    << \* 1: a record at the very start of the smallest possible file
       OneRecord(SizeofCDREnd, 0, 0),
       \* 2: no record at all
       MkFile(300, << >>),
       \* 3: a record at the end of a file of one window
       OneRecord(CDRSearchWindowSize, CDRSearchWindowSize - SizeofCDREnd, 0),
       \* 4: a record that straddles the first two windows
       OneRecord(600, 340, 600 - 340 - SizeofCDREnd),
       \* 5: the longest comment, the record at offset 0
       OneRecord(SizeofCDREnd + MaxCommentLength, 0, MaxCommentLength),
       \* 6: the longest comment, the record at offset 1
       OneRecord(SizeofCDREnd + MaxCommentLength + 1, 1, MaxCommentLength),
       \* 7: no record, but PK\5 and, 24 bytes later, \6 in the lowest window
       MkFile(BigSize, << Patch(LowestScanned(BigSize) + 18, << 80, 75, 5 >>),
                          Patch(LowestScanned(BigSize) + 42, << 6 >>) >>),
       \* 8: a record in the lowest window whose comment length is one too big
       OneRecord(BigSize, LowestScanned(BigSize) + 18,
                 BigSize - (LowestScanned(BigSize) + 18) - SizeofCDREnd + 1),
       \* 9: a record whose comment holds a signature with a wrong comment length
       MkFile(400, << Patch(100, MkCDREnd(0, 0, 0, 0, 0, 0, 400 - 100 - SizeofCDREnd)),
                      Patch(300, MkCDREnd(0, 0, 0, 0, 0, 0, 5)) >>),
       \* 10: a record at the end whose comment length is one too big
       OneRecord(300, 300 - SizeofCDREnd, 1),
       \* 11: file 1 with one byte appended
       OneRecord(SizeofCDREnd + 1, 0, 0),
       \* 12: file 5 with one byte appended
       OneRecord(SizeofCDREnd + MaxCommentLength + 1, 0, MaxCommentLength),
       \* 13: the largest file, the record at its end
       OneRecord(MaxSize, MaxSize - SizeofCDREnd, 0),
       \* 14: a record just above the lowest window
       OneRecord(BigSize, LowestScanned(BigSize) + SizeofCDREnd - 1,
                 BigSize - (LowestScanned(BigSize) + SizeofCDREnd - 1) - SizeofCDREnd),
       \* 15: a record whose comment length is one too small
       OneRecord(300, 200, 300 - 200 - SizeofCDREnd - 1),
       \* 16: no record in a file behind whose start the scan stops
       MkFile(BigSize, << Patch(LowestScanned(BigSize) - 30,
                                MkCDREnd(0, 0, 0, 0, 0, 0, 0)) >>)
    >>

\* where the members of OneMember end, and where its CDR ends
MemberOffset == Len(LocalPart(<< EntryA >>))
MemberEnd == Len(OneMember) - SizeofCDREnd

\* OneMember with another size and offset of the CDR in its CDREnd record
Ranged(lCDRSize, lCDROffset) ==
    Patch(MemberEnd + 12, LE32(lCDRSize) \o LE32(lCDROffset))

RangeCatalog ==
    << \* 1: the CDR ends where the CDREnd record starts
       WholeFile(OneMember),
       \* 2: the CDR ends three bytes before the CDREnd record
       WholeFile(MkArchive(<< EntryA >>, 0, 3, << >>)),
       \* 3: an empty CDR that starts one byte behind the start of the record
       Mutated(OneMember, << Ranged(0, MemberEnd + 1) >>),
       \* 4: a CDR from offset 0 that is one byte too long
       Mutated(OneMember, << Ranged(MemberEnd + 1, 0) >>),
       \* 5: offset and size in range, their sum one byte too big
       Mutated(OneMember, << Ranged(MemberEnd - MemberOffset + 1, MemberOffset) >>),
       \* 6: offset 0xFFFFFFF0 and size 0x20, whose sum in 32 bits is 0x10
       Mutated(OneMember, << Ranged(32, -16) >>),
       \* 7: size 0xFFFFFFFF and offset 1, whose sum in 32 bits is 0
       Mutated(OneMember, << Ranged(-1, 1) >>),
       \* 8: offset and size 0x80000000, whose sum in 32 bits is 0
       Mutated(OneMember, << Ranged(0 - MaxSize - 1, 0 - MaxSize - 1) >>),
       \* 9: the second volume, with the CDR of file 3
       Mutated(OneMember, << Patch(MemberEnd + 4, LE16(1)),
                             Ranged(0, MemberEnd + 1) >>),
       \* 10: the largest file; offset and size are the offset of the record
       MkFile(MaxSize,
              << Patch(MaxSize - SizeofCDREnd,
                       MkCDREnd(0, 0, 0, 0, MaxSize - SizeofCDREnd,
                                MaxSize - SizeofCDREnd, 0)) >>),
       \* 11: the largest file; an empty CDR at the offset of the record
       MkFile(MaxSize,
              << Patch(MaxSize - SizeofCDREnd,
                       MkCDREnd(0, 0, 0, 0, 0, MaxSize - SizeofCDREnd, 0)) >>),
       \* 12: file 3 with an extended header in the comment area
       Mutated(Trailed(PlainTrailer), << Ranged(0, MemberEnd + 1) >>),
       \* 13: the CDR is all that stands before the record
       Mutated(OneMember, << Ranged(MemberEnd, 0) >>)
    >>

Catalog == ArchiveCatalog \o ScanCatalog \o RangeCatalog

NoSuchFile == 0
ArchiveNames == 1..Len(ArchiveCatalog)
ScanNames == (Len(ArchiveCatalog) + 1)..(Len(ArchiveCatalog) + Len(ScanCatalog))
RangeNames == (Len(ArchiveCatalog) + Len(ScanCatalog) + 1)..Len(Catalog)
\* the archives the factory's life cycle is run on
LifeCycleNames == { 1, 2, 3, 4, 11, 16, 17 }
\* archives with records of several layouts and names
TreeNames == { 3, 4, 34, 35, 36 }
\* archives with and without encryption and extended header
ReopenNames == { 3, 4, 12, 13, 18, 24 }
\* archives of one volume and of several
VolumeNames == { 3, 14 } \cup (28..33)

(***************************************************************************)
(* State                                                                   *)
(***************************************************************************)
VARIABLES
    pc,                  \* "idle", "scan", "prepare", "destroyed"
    disk,                \* name -> the file of that name
    handles,             \* handle -> [name, mode, open, cache]
    filePos,             \* the read position of the factory's handle
    faultsLeft,          \* I/O calls that may still fail
    callsLeft,           \* calls of New still to come
    errors,              \* the THROW_ZIPDIR_ERROR codes of the current New
    result,              \* what the last New returned
    m_nFlags, m_nInitMethod, m_fileHandle, m_szFilename,
    m_nCDREndPos, m_CDREnd, m_nZipFileSize,
    m_encryptedHeaders, m_signedHeaders, m_headerExtended, m_headerSignature,
    m_CDR_buffer, m_treeFileEntries, m_bBuildFileEntryTree,
    pCache,              \* New's Cache under construction
    memoryFault,         \* an access outside m_CDR_buffer has happened
    nFileSize, nOldBufPos, nScanPos, pReservedBuffer,  \* FindCDREnd's locals
    \* ModernViewportCameraControllerInstance and what is around it
    m_cameraMode,        \* "Control", "Animation"
    m_animationT,        \* a float, in units of 1 / FloatOne
    m_updatingTransform,
    m_lookAtAfterInterpolation,   \* whether the optional has a value
    viewportContext,     \* whether RetrieveViewportContext finds the context
    interpolationsLeft,  \* calls of InterpolateToTransform still to come
    updates              \* the parity of the number of UpdateViewport events

envVars == << disk, handles, filePos, faultsLeft, callsLeft, errors, result >>
configVars == << m_nFlags, m_nInitMethod >>
memberVars == << m_fileHandle, m_szFilename, m_nCDREndPos, m_CDREnd,
                 m_nZipFileSize, m_encryptedHeaders, m_signedHeaders,
                 m_headerExtended, m_headerSignature, m_CDR_buffer,
                 m_treeFileEntries, m_bBuildFileEntryTree >>
scanVars == << nFileSize, nOldBufPos, nScanPos, pReservedBuffer >>
cameraVars == << m_cameraMode, m_animationT, m_updatingTransform,
                 m_lookAtAfterInterpolation, viewportContext,
                 interpolationsLeft, updates >>
vars == << pc, envVars, configVars, memberVars, pCache, memoryFault, scanVars,
           cameraVars >>

NoCache == [valid |-> FALSE]
NoPath == -1

FlagSets ==
    { {}, {"READ_ONLY"}, {"CREATE_NEW"},
      {"READ_ONLY", "DONT_COMPACT", "DONT_MEMORIZE_ZIP_PATH"},
      {"READ_ONLY", "FILENAMES_AS_CRC32"},
      {"DONT_COMPACT", "READ_INSIDE_PAK"} }

InitMethods == { ZD_INIT_FAST, ZD_INIT_FULL }

ZeroCDREnd ==
    [lSignature |-> 0, nDisk |-> 0, nCDRStartDisk |-> 0, numEntriesOnDisk |-> 0,
     numEntriesTotal |-> 0, lCDRSize |-> 0, lCDROffset |-> 0, nCommentLength |-> 0]

\* members the constructor leaves uninitialized hold whatever was in memory
UninitializedHeaders ==
    { [ext |-> [nHeaderSize |-> 0, nEncryption |-> 0, nSigning |-> 0], sig |-> 0],
      [ext |-> [nHeaderSize |-> SizeofExtendedHeader,
                nEncryption |-> HEADERS_NOT_ENCRYPTED,
                nSigning |-> HEADERS_CDR_SIGNED],
       sig |-> SizeofSignedCDRHeader] }

NoScan ==
    /\ nFileSize = 0 /\ nOldBufPos = 0 /\ nScanPos = 0 /\ pReservedBuffer = << >>

\* CacheFactory::CacheFactory
FactoryConstructed(names, flagSets, faults, calls) ==
    /\ pc = "idle"
    /\ disk = [n \in names \cup {NoSuchFile} |->
                  IF n = NoSuchFile THEN NoFile ELSE Catalog[n]]
    /\ handles = << >>
    /\ filePos = 0
    /\ faultsLeft = faults
    /\ callsLeft = calls
    /\ errors = << >>
    /\ result = NoCache
    /\ m_nFlags \in flagSets
    /\ m_nInitMethod \in InitMethods
    /\ m_fileHandle = InvalidHandle
    /\ m_szFilename = NoPath
    /\ m_nCDREndPos = 0
    /\ m_CDREnd = ZeroCDREnd
    /\ m_nZipFileSize = 0
    /\ m_encryptedHeaders = HEADERS_NOT_ENCRYPTED
    /\ m_signedHeaders = HEADERS_NOT_SIGNED
    /\ \E u \in UninitializedHeaders :
          /\ m_headerExtended = u.ext
          /\ m_headerSignature = [nHeaderSize |-> u.sig]
    /\ m_CDR_buffer = << >>
    /\ m_treeFileEntries = << >>
    /\ m_bBuildFileEntryTree = ("FILENAMES_AS_CRC32" \notin m_nFlags)
    /\ pCache = NoCache
    /\ memoryFault = FALSE
    /\ NoScan

\* the members of a ModernViewportCameraControllerInstance as their
\* initializers leave them; interpolations calls of InterpolateToTransform
\* are to come, and the viewport's context exists or not as contexts says
CameraConstructed(contexts, interpolations) ==
    /\ m_cameraMode = "Control"
    /\ m_animationT = 0
    /\ m_updatingTransform = FALSE
    /\ m_lookAtAfterInterpolation = FALSE
    /\ viewportContext \in contexts
    /\ interpolationsLeft = interpolations
    /\ updates = 0

\* a CacheFactory and a camera controller that is not used
Constructed(names, flagSets, faults, calls) ==
    /\ FactoryConstructed(names, flagSets, faults, calls)
    /\ CameraConstructed({FALSE}, 0)

\* a factory used for up to MaxNewCalls calls of New, MaxIoFaults I/O calls failing
Init == Constructed(LifeCycleNames, FlagSets, MaxIoFaults, MaxNewCalls)

\* one New on each archive, no I/O call failing
InitParse == Constructed(ArchiveNames, FlagSets, 0, 1)

\* the factory's life cycle on archives of one volume and of several
InitVolume ==
    Constructed(VolumeNames, { {"READ_ONLY"}, {} }, MaxIoFaults, MaxNewCalls)

\* the factory's life cycle on archives with records of several layouts
InitTree ==
    Constructed(TreeNames, { {"READ_ONLY"}, {} }, MaxIoFaults, MaxNewCalls)

\* a factory used for up to MaxNewCalls calls of New, no I/O call failing
InitReopen == Constructed(ReopenNames, { {"READ_ONLY"}, {} }, 0, MaxNewCalls)

\* one New on archives whose CDREnd record names a CDR in and out of the
\* range before the record
InitRange == Constructed(RangeNames, { {"READ_ONLY"}, {} }, MaxIoFaults, 1)

\* one New on files chosen to exercise the search of the CDREnd record
InitScan == Constructed(ScanNames, { {"READ_ONLY"}, {} }, 0, 1)

(***************************************************************************)
(* The record of the variables an operation works on.  Besides them it has *)
(* hit (an I/O call failed by fault in the step), tell, ok and data (what  *)
(* the last Tell and Read returned and delivered), prepared (what Prepare  *)
(* returns) and fileEntry (AddFileEntry's local).                          *)
(***************************************************************************)
Cur ==
    [pc |-> pc, disk |-> disk, handles |-> handles, filePos |-> filePos,
     errors |-> errors, result |-> result,
     hit |-> FALSE, tell |-> 0, ok |-> TRUE, data |-> << >>,
     prepared |-> TRUE, fileEntry |-> << >>,
     m_fileHandle |-> m_fileHandle, m_szFilename |-> m_szFilename,
     m_nCDREndPos |-> m_nCDREndPos, m_CDREnd |-> m_CDREnd,
     m_nZipFileSize |-> m_nZipFileSize,
     m_encryptedHeaders |-> m_encryptedHeaders,
     m_signedHeaders |-> m_signedHeaders,
     m_headerExtended |-> m_headerExtended,
     m_headerSignature |-> m_headerSignature,
     m_CDR_buffer |-> m_CDR_buffer, m_treeFileEntries |-> m_treeFileEntries,
     m_bBuildFileEntryTree |-> m_bBuildFileEntryTree, pCache |-> pCache,
     memoryFault |-> memoryFault,
     nFileSize |-> nFileSize, nOldBufPos |-> nOldBufPos,
     nScanPos |-> nScanPos, pReservedBuffer |-> pReservedBuffer]

Becomes(s) ==
    /\ pc' = s.pc
    /\ disk' = s.disk
    /\ handles' = s.handles
    /\ filePos' = s.filePos
    /\ errors' = s.errors
    /\ result' = s.result
    /\ faultsLeft' = IF s.hit THEN faultsLeft - 1 ELSE faultsLeft
    /\ m_fileHandle' = s.m_fileHandle
    /\ m_szFilename' = s.m_szFilename
    /\ m_nCDREndPos' = s.m_nCDREndPos
    /\ m_CDREnd' = s.m_CDREnd
    /\ m_nZipFileSize' = s.m_nZipFileSize
    /\ m_encryptedHeaders' = s.m_encryptedHeaders
    /\ m_signedHeaders' = s.m_signedHeaders
    /\ m_headerExtended' = s.m_headerExtended
    /\ m_headerSignature' = s.m_headerSignature
    /\ m_CDR_buffer' = s.m_CDR_buffer
    /\ m_treeFileEntries' = s.m_treeFileEntries
    /\ m_bBuildFileEntryTree' = s.m_bBuildFileEntryTree
    /\ pCache' = s.pCache
    /\ memoryFault' = s.memoryFault
    /\ nFileSize' = s.nFileSize
    /\ nOldBufPos' = s.nOldBufPos
    /\ nScanPos' = s.nScanPos
    /\ pReservedBuffer' = s.pReservedBuffer
    /\ UNCHANGED configVars
    /\ UNCHANGED cameraVars

\* the I/O calls that can be made to fail, named by their source line
NewSites == { 112, 113, 114, 136, 338, 339 }
FindCDREndSites == { 402, 403 }
\* 459 is the allocation of the CDR buffer
PrepareSites == { 209, 210, 266, 450, 459, 467, 601, 607 }
NoFault == 0

\* the failure, if any, of the step about to be taken
Faults(sites) == {NoFault} \cup (IF faultsLeft > 0 THEN sites ELSE {})

\* THROW_ZIPDIR_ERROR reports the error and execution continues after it
Throw(s, code, line) ==
    [s EXCEPT !.errors = Append(@, [code |-> code, line |-> line])]

\* the file behind the factory's handle
OpenedFile(s) == s.disk[s.handles[s.m_fileHandle].name]

\* CacheFactory::Seek
Seek(s, site, nPos, nOrigin, fail) ==
    IF fail = site
    THEN [Throw(s, "IO_FAILED", 740) EXCEPT !.hit = TRUE]
    ELSE [s EXCEPT !.filePos =
             IF nOrigin = "SEEK_END" THEN OpenedFile(s).size + nPos ELSE nPos]

\* CacheFactory::Tell; s.tell is what it returns
Tell(s, site, fail) ==
    IF fail = site
    THEN [Throw(s, "IO_FAILED", 750) EXCEPT !.hit = TRUE, !.tell = 0]
    ELSE [s EXCEPT !.tell = s.filePos]

\* the number of bytes a read of nSize bytes of file f delivers
ReadCount(s, f, nSize, failed) ==
    IF failed \/ Above32(s.filePos, f.size - 1) THEN 0
    ELSE IF Above32(nSize, f.size - s.filePos) THEN f.size - s.filePos
    ELSE nSize

\* FRead and lines 758-763 on file f delivering n bytes
ReadFrom(s, f, n, nSize, failed) ==
    [(IF n = nSize THEN s ELSE Throw(s, "IO_FAILED", 760)) EXCEPT
        !.filePos = @ + n,
        !.hit = @ \/ failed,
        !.ok = (n = nSize),
        !.data = FileBytes(f, s.filePos, n)]

\* CacheFactory::Read; s.ok is what it returns, s.data the bytes that
\* reach the destination
Read(s, site, nSize, fail) ==
    ReadFrom(s, OpenedFile(s),
             ReadCount(s, OpenedFile(s), nSize, fail = site), nSize, fail = site)

\* FileIOBase::Open of an existing file, for reading or for updating
OpenExisting(s, name, mode) ==
    IF ~s.disk[name].present
    THEN [s EXCEPT !.m_fileHandle = InvalidHandle]
    ELSE [s EXCEPT !.handles = Append(@, [name |-> name, mode |-> mode,
                                          open |-> TRUE, cache |-> FALSE]),
                   !.m_fileHandle = Len(s.handles) + 1,
                   !.filePos = 0]

\* FileIOBase::Open for writing: creates the file or truncates it
OpenTruncating(s, name, fail) ==
    IF fail = 136
    THEN [s EXCEPT !.m_fileHandle = InvalidHandle, !.hit = TRUE]
    ELSE [s EXCEPT !.handles = Append(@, [name |-> name, mode |-> "write",
                                          open |-> TRUE, cache |-> FALSE]),
                   !.m_fileHandle = Len(s.handles) + 1,
                   !.filePos = 0,
                   !.disk = [@ EXCEPT ![name] = MkFile(0, << >>)]]

\* FileIOBase::Close
Close(s, h) == [s EXCEPT !.handles = [@ EXCEPT ![h].open = FALSE]]

\* lines 130-134, and ZipFile::File::Close in Clear
CloseFile(s) ==
    IF s.m_fileHandle # InvalidHandle
    THEN [Close(s, s.m_fileHandle) EXCEPT !.m_fileHandle = InvalidHandle]
    ELSE s

(***************************************************************************)
(* CacheFactory::New                                                       *)
(***************************************************************************)
\* Cache::Cache, then lines 73-81 of New
NewCache(name) ==
    [valid |-> TRUE,
     m_strFilePath |-> IF "DONT_MEMORIZE_ZIP_PATH" \notin m_nFlags THEN name ELSE NoPath,
     m_nFlags |-> IF "DONT_COMPACT" \in m_nFlags THEN {"DONT_COMPACT"} ELSE {},
     m_lCDROffset |-> 0,
     m_fileHandle |-> InvalidHandle,
     m_treeDir |-> << >>,
     m_CDR_buffer |-> << >>,
     m_encryptedHeaders |-> HEADERS_NOT_ENCRYPTED,
     m_signedHeaders |-> HEADERS_NOT_SIGNED,
     m_headerExtended |-> [nHeaderSize |-> 0, nEncryption |-> 0, nSigning |-> 0],
     m_headerSignature |-> [nHeaderSize |-> 0]]

\* lines 68-81
NewBegin(szFileName) ==
    [Cur EXCEPT !.m_szFilename = szFileName,
                !.errors = << >>,
                !.pCache = NewCache(szFileName)]

\* FindCDREnd's locals go out of scope
EndScan(s) ==
    [s EXCEPT !.nFileSize = 0, !.nOldBufPos = 0, !.nScanPos = 0,
              !.pReservedBuffer = << >>]

\* lines 152-157: the Cache takes the handle
ReturnCache(s) ==
    [EndScan(s) EXCEPT
        !.result = [s.pCache EXCEPT !.m_fileHandle = s.m_fileHandle],
        !.handles = [@ EXCEPT ![s.m_fileHandle].cache = TRUE],
        !.m_fileHandle = InvalidHandle,
        !.pCache = NoCache,
        !.pc = "idle"]

\* return {}: the Cache under construction is destroyed
ReturnNothing(s) ==
    [EndScan(s) EXCEPT !.result = NoCache, !.pCache = NoCache, !.pc = "idle"]

\* lines 94-98 and 119-123: ReadCache returned false
ReadCacheFailed(s) ==
    ReturnNothing(Throw(s, "IO_FAILED", IF "READ_ONLY" \in m_nFlags THEN 96 ELSE 121))

\* lines 350-363, s.tell being nFileSize
FindCDREndBegin(s) ==
    IF s.tell < SizeofCDREnd
    THEN ReadCacheFailed([s EXCEPT !.m_nZipFileSize = s.tell])
    ELSE [s EXCEPT !.pc = "scan",
                   !.m_nZipFileSize = s.tell,
                   !.nFileSize = s.tell,
                   !.nOldBufPos = s.tell,
                   !.nScanPos = s.tell - SizeofCDREnd,
                   !.pReservedBuffer = Zeros(CDRSearchWindowSize + SizeofCDREnd - 1),
                   !.m_CDREnd = [@ EXCEPT !.lSignature = 0]]

\* ReadCache line 162, Prepare, FindCDREnd up to its loop (lines 336-363)
ReadCacheBegin(s, fail) ==
    FindCDREndBegin(
        Tell(Seek([s EXCEPT !.m_bBuildFileEntryTree = TRUE], 338, 0, "SEEK_END", fail),
             339, fail))

\* lines 136-149, s being the state after the Open of line 136
OpenedForWriting(s) ==
    IF s.m_fileHandle = InvalidHandle
    THEN ReturnNothing(Throw(s, "IO_FAILED", 146))
    ELSE ReturnCache([s EXCEPT !.pCache = [@ EXCEPT !.m_lCDROffset = 0,
                                                    !.m_nFlags = @ \cup {"CDR_DIRTY"}]])

\* lines 128-149
OpenForWriting(s, fail) ==
    OpenedForWriting(OpenTruncating(CloseFile(s), s.m_szFilename, fail))

\* lines 116-126 without the test of line 117: a faulty variant, which the
\* properties of an empty file tell from NewSized
NewSizedWithoutTest(s, fail) == ReadCacheBegin(s, fail)

\* lines 116-126, s.tell being nFileSize
NewSized(s, fail) ==
    IF s.tell # 0 THEN ReadCacheBegin(s, fail) ELSE OpenForWriting(s, fail)

\* lines 110-149, s being the state after lines 102-106
NewReadWrite(s, fail) ==
    IF s.m_fileHandle # InvalidHandle
    THEN NewSized(Seek(Tell(Seek(s, 112, 0, "SEEK_END", fail), 113, fail),
                       114, 0, "SEEK_SET", fail),
                  fail)
    ELSE OpenForWriting(s, fail)

\* lines 87-99, s being the state after the Open of line 86
NewReadOnly(s, fail) ==
    IF s.m_fileHandle = InvalidHandle
    THEN ReturnNothing(Throw(s, "IO_FAILED", 91))
    ELSE ReadCacheBegin(s, fail)

\* line 87 without FLAGS_CDR_DIRTY: a faulty variant, which the properties of
\* the returned Cache tell from MarkReadOnly
MarkReadOnlyNotDirty(s) ==
    [s EXCEPT !.pCache = [@ EXCEPT !.m_nFlags = @ \cup {"READ_ONLY"}]]

\* line 87
MarkReadOnly(s) ==
    [s EXCEPT !.pCache = [@ EXCEPT !.m_nFlags = @ \cup {"CDR_DIRTY", "READ_ONLY"}]]

\* lines 102-106
OpenForUpdate(s) ==
    IF "CREATE_NEW" \notin m_nFlags
    THEN OpenExisting([s EXCEPT !.m_fileHandle = InvalidHandle], s.m_szFilename, "update")
    ELSE [s EXCEPT !.m_fileHandle = InvalidHandle]

NewOutcome(szFileName, fail) ==
    IF "READ_ONLY" \in m_nFlags
    THEN NewReadOnly(MarkReadOnly(OpenExisting(NewBegin(szFileName), szFileName, "read")),
                     fail)
    ELSE NewReadWrite(OpenForUpdate(NewBegin(szFileName)), fail)

\* CacheFactory::New, up to FindCDREnd's loop if it gets there
New ==
    /\ pc = "idle"
    /\ callsLeft > 0
    /\ \E szFileName \in DOMAIN disk :
       \E fail \in Faults(NewSites) :
          Becomes(NewOutcome(szFileName, fail))
    /\ callsLeft' = callsLeft - 1

(***************************************************************************)
(* CacheFactory::FindCDREnd: one turn of its outer loop (lines 364-438)    *)
(***************************************************************************)
DecodeCDREnd(buf, at) ==
    [lSignature |-> U32At(buf, at),
     nDisk |-> U16At(buf, at + 4),
     nCDRStartDisk |-> U16At(buf, at + 6),
     numEntriesOnDisk |-> U16At(buf, at + 8),
     numEntriesTotal |-> U16At(buf, at + 10),
     lCDRSize |-> U32At(buf, at + 12),
     lCDROffset |-> U32At(buf, at + 16),
     nCommentLength |-> U16At(buf, at + 20)]

\* the start of the next window (lines 368-392)
NewBufPos ==
    LET unclamped == IF nOldBufPos <= CDRSearchWindowSize
                     THEN 0 ELSE nOldBufPos - CDRSearchWindowSize
        lowest == nFileSize - SizeofCDREnd - MaxCommentLength
    IN  IF nFileSize > SizeofCDREnd + MaxCommentLength /\ unclamped < lowest
        THEN lowest ELSE unclamped

\* where in pReservedBuffer the window is read (lines 367-376)
WindowAt ==
    IF nOldBufPos <= CDRSearchWindowSize
    THEN CDRSearchWindowSize - (nOldBufPos - 0)
    ELSE 0

\* lines 405-437 on the buffer buf; found is the offsets from nScanPos down
\* to nNewBufPos at which the buffer holds the signature
Scanned(s, buf, nNewBufPos, pWindow, found) ==
    IF found # {}
    THEN IF U16At(buf, pWindow + Max(found) - nNewBufPos + 20)
                = nFileSize - Max(found) - SizeofCDREnd
         THEN [EndScan(s) EXCEPT
                  !.m_CDREnd = DecodeCDREnd(buf, pWindow + Max(found) - nNewBufPos),
                  !.m_nCDREndPos = Max(found),
                  !.pc = "prepare"]
         ELSE ReadCacheFailed(Throw(s, "DATA_IS_CORRUPT", 421))
    ELSE [s EXCEPT !.nScanPos = IF nNewBufPos = 0 THEN 0 ELSE nNewBufPos - 1,
                   !.nOldBufPos = nNewBufPos,
                   !.pReservedBuffer =
                       Overlay(buf, CDRSearchWindowSize,
                               Slice(buf, pWindow, SizeofCDREnd - 1))]

\* lines 405-437, the window's bytes being in buf
ScanBuffer(s, buf, nNewBufPos, pWindow) ==
    Scanned(s, buf, nNewBufPos, pWindow,
            {p \in nNewBufPos..nScanPos :
                Slice(buf, pWindow + p - nNewBufPos, 4) = CDREndSignature})

\* lines 403-437, s being the state after the Read of line 403
ScanWindow(s, nNewBufPos, pWindow) ==
    ScanBuffer(s, Overlay(pReservedBuffer, pWindow, s.data), nNewBufPos, pWindow)

FindCDREndOutcome(fail) ==
    IF NewBufPos >= nOldBufPos
    THEN ReadCacheFailed(Throw(Cur, "NO_CDR", 397))
    ELSE ScanWindow(Read(Seek(Cur, 402, NewBufPos, "SEEK_SET", fail),
                         403, nOldBufPos - NewBufPos, fail),
                    NewBufPos, WindowAt)

FindCDREnd ==
    /\ pc = "scan"
    /\ \E fail \in Faults(FindCDREndSites) : Becomes(FindCDREndOutcome(fail))
    /\ UNCHANGED callsLeft

(***************************************************************************)
(* CacheFactory::~CacheFactory and Clear                                   *)
(***************************************************************************)
Clear(s) ==
    [CloseFile(s) EXCEPT !.m_nCDREndPos = 0,
                         !.m_CDREnd = ZeroCDREnd,
                         !.m_treeFileEntries = << >>,
                         !.m_encryptedHeaders = HEADERS_NOT_ENCRYPTED]

Destroy ==
    /\ pc = "idle"
    /\ Becomes([Clear(Cur) EXCEPT !.pc = "destroyed"])
    /\ UNCHANGED callsLeft

(***************************************************************************)
(* CacheFactory::InitDataOffset, AddFileEntry, BuildFileEntryMap           *)
(***************************************************************************)
ToLower(c) == IF c >= ChUpperA /\ c <= ChUpperZ THEN c + CaseOffset ELSE c

\* the fields of the CDRFileHeader at index at of the CDR buffer
CDRVersionNeeded(buf, at) == U16At(buf, at + 6)
CDRMethod(buf, at) == U16At(buf, at + 10)
CDRDesc(buf, at) ==
    [lCRC32 |-> U32At(buf, at + 16),
     lSizeCompressed |-> U32At(buf, at + 20),
     lSizeUncompressed |-> U32At(buf, at + 24)]
CDRFileNameLength(buf, at) == U16At(buf, at + 28)
CDRExtraFieldLength(buf, at) == U16At(buf, at + 30)
CDRFileCommentLength(buf, at) == U16At(buf, at + 32)
CDRLocalHeaderOffset(buf, at) == U32At(buf, at + 42)

\* the fields of a LocalFileHeader at the start of buf
LocalMethod(buf) == U16At(buf, 8)
LocalDesc(buf) ==
    [lCRC32 |-> U32At(buf, 14),
     lSizeCompressed |-> U32At(buf, 18),
     lSizeUncompressed |-> U32At(buf, 22)]
LocalFileNameLength(buf) == U16At(buf, 26)
LocalExtraFieldLength(buf) == U16At(buf, 28)

\* the C string at index at: the bytes before the first NUL
RECURSIVE CString(_, _)
CString(buf, at) ==
    IF at >= Len(buf) \/ ByteAt(buf, at) = 0 THEN << >>
    ELSE << ByteAt(buf, at) >> \o CString(buf, at + 1)

\* FileEntryBase::FileEntryBase(const CDRFileHeader&, const SExtraZipFileData&)
FileEntryBase(buf, at, extra) ==
    [desc |-> CDRDesc(buf, at),
     nMethod |-> CDRMethod(buf, at),
     nFileHeaderOffset |-> CDRLocalHeaderOffset(buf, at),
     nFileDataOffset |-> INVALID_DATA_OFFSET,
     nEOFOffset |-> 0,
     nNTFS_LastModifyTime |-> extra]

\* lines 638-653; Validate (init method validate) is outside the model
InitDataOffsetEnd(s, nFileDataOffset) ==
    [(IF ~Above32(s.m_nCDREndPos, nFileDataOffset)
      THEN Throw(s, "VALIDATION_FAILED", 645) ELSE s) EXCEPT
        !.fileEntry = [@ EXCEPT
            !.nFileDataOffset = nFileDataOffset,
            !.nEOFOffset = Add32(nFileDataOffset, s.fileEntry.desc.lSizeCompressed)]]

\* lines 609-636, pBuffer being the local header and the name as read
CompareLocalHeader(s, buf, at, pBuffer) ==
    IF \/ CDRDesc(buf, at) # LocalDesc(pBuffer)
       \/ CDRMethod(buf, at) # LocalMethod(pBuffer)
       \/ CDRFileNameLength(buf, at) # LocalFileNameLength(pBuffer)
    THEN Throw(s, "VALIDATION_FAILED", 620)
    ELSE IF \E i \in 0..(CDRFileNameLength(buf, at) - 1) :
               ToLower(ByteAt(pBuffer, SizeofLocalFileHeader + i))
                   # ToLower(ByteAt(buf, at + SizeofCDRFileHeader + i))
    THEN Throw(s, "VALIDATION_FAILED", 631)
    ELSE InitDataOffsetEnd(s,
             Add32(CDRLocalHeaderOffset(buf, at),
                   SizeofLocalFileHeader + LocalFileNameLength(pBuffer)
                       + LocalExtraFieldLength(pBuffer)))

\* lines 604-636, s being the state after the Read of line 607
ValidateLocalHeader(s, at, nBufferLength) ==
    CompareLocalHeader(s, s.m_CDR_buffer, at,
                       Overlay(Zeros(nBufferLength), 0, s.data))

\* CacheFactory::InitDataOffset on s.fileEntry and the record at index at
InitDataOffset(s, at, fail) ==
    IF s.m_encryptedHeaders # HEADERS_NOT_ENCRYPTED
    THEN InitDataOffsetEnd(s,
             Add32(CDRLocalHeaderOffset(s.m_CDR_buffer, at),
                   SizeofLocalFileHeader + CDRFileNameLength(s.m_CDR_buffer, at)))
    ELSE ValidateLocalHeader(
             Read(Seek(s, 601, CDRLocalHeaderOffset(s.m_CDR_buffer, at), "SEEK_SET", fail),
                  607, SizeofLocalFileHeader + CDRFileNameLength(s.m_CDR_buffer, at), fail),
             at, SizeofLocalFileHeader + CDRFileNameLength(s.m_CDR_buffer, at))

\* FileEntryTree::Add: the tree as the list of its leaves, in insertion order
TreeAdd(tree, strFilePath, nameAt, fileEntry) ==
    Append(tree, [path |-> strFilePath, nameAt |-> nameAt, entry |-> fileEntry])

\* lines 576-584; strFilePath is the C string at the record's file name
AddToTree(s, at) ==
    IF s.m_bBuildFileEntryTree
    THEN [s EXCEPT !.m_treeFileEntries =
             TreeAdd(@, CString(s.m_CDR_buffer, at + SizeofCDRFileHeader),
                     at + SizeofCDRFileHeader, s.fileEntry)]
    ELSE s

\* lines 568-584
AddCheckedFileEntry(s, at, fail) ==
    IF /\ \/ s.m_encryptedHeaders # HEADERS_NOT_ENCRYPTED
          \/ m_nInitMethod >= ZD_INIT_FULL
       /\ s.fileEntry.desc.lSizeCompressed # 0
    THEN AddToTree(InitDataOffset(s, at, fail), at)
    ELSE AddToTree(s, at)

\* CacheFactory::AddFileEntry for the record at index at of the CDR buffer
AddFileEntry(s, at, extra, fail) ==
    IF Above32(CDRLocalHeaderOffset(s.m_CDR_buffer, at), s.m_CDREnd.lCDROffset)
    THEN Throw(s, "CDR_IS_CORRUPT", 558)
    ELSE IF /\ CDRMethod(s.m_CDR_buffer, at) \in
                   {METHOD_STORE, METHOD_STORE_AND_STREAMCIPHER_KEYTABLE}
            /\ CDRDesc(s.m_CDR_buffer, at).lSizeUncompressed
                   # CDRDesc(s.m_CDR_buffer, at).lSizeCompressed
    THEN Throw(s, "VALIDATION_FAILED", 564)
    ELSE AddCheckedFileEntry(
             [s EXCEPT !.fileEntry = FileEntryBase(s.m_CDR_buffer, at, extra)],
             at, fail)

\* a read of the CDR buffer; outside the buffer it yields 0 and is recorded
SafeByte(buf, i) == IF i < Len(buf) THEN ByteAt(buf, i) ELSE 0
SafeU16(buf, i) == SafeByte(buf, i) + TwoPow8 * SafeByte(buf, i + 1)

\* lines 502-518: the extra fields from p up to pExtraEnd; x is
\* [time: extra.nLastModifyTime as its 8 bytes, oob: a read left the buffer]
RECURSIVE ExtraFields(_, _, _, _)
ExtraFields(buf, p, pExtraEnd, x) ==
    IF p >= pExtraEnd THEN x
    ELSE ExtraFields(buf, p + SizeofExtraFieldHeader + SafeU16(buf, p + 2), pExtraEnd,
             [time |-> IF SafeU16(buf, p) = EXTRA_NTFS
                       THEN [k \in 1..8 |->
                                SafeByte(buf, p + SizeofExtraFieldHeader
                                                + SizeofExtraNTFSHeader + k - 1)]
                       ELSE x.time,
              oob |-> \/ x.oob
                      \/ p + SizeofExtraFieldHeader > Len(buf)
                      \/ /\ SafeU16(buf, p) = EXTRA_NTFS
                         /\ p + SizeofExtraFieldHeader + SizeofExtraNTFSHeader + 8
                                > Len(buf)])

IsSeparator(c) == c \in {ChSlash, ChBackslash}

\* lines 532-536
NormalizeChar(c) == IF ToLower(c) = ChBackslash THEN ChSlash ELSE ToLower(c)

\* lines 529-538
\* lines 530-537 without line 538: a faulty variant, which the properties of
\* the stored names tell from NormalizeName
NormalizeNameUnterminated(buf, pFileName, nFileNameLength) ==
    Overlay(buf, pFileName,
            [k \in 1..nFileNameLength |->
                NormalizeChar(ByteAt(buf, pFileName + k - 1))])

\* lines 530-538
NormalizeName(buf, pFileName, nFileNameLength) ==
    Overlay(buf, pFileName,
            [k \in 1..nFileNameLength |->
                NormalizeChar(ByteAt(buf, pFileName + k - 1))] \o << 0 >>)

\* lines 520-540 for the record at index at, extra being its extra data
AddRecord(s, at, pFileName, nFileNameLength, extra, fail) ==
    IF /\ nFileNameLength > 0
       /\ IsSeparator(ByteAt(s.m_CDR_buffer, pFileName + nFileNameLength - 1))
    THEN [s EXCEPT !.memoryFault = @ \/ extra.oob]
    ELSE AddFileEntry(
             [s EXCEPT !.memoryFault = @ \/ extra.oob,
                       !.m_CDR_buffer = NormalizeName(@, pFileName, nFileNameLength)],
             at, extra.time, fail)

\* lines 478-544: the records from index at on
RECURSIVE ParseCDR(_, _, _)
RECURSIVE ParseRecord(_, _, _, _)
ParseCDR(s, at, fail) ==
    IF at + SizeofCDRFileHeader > s.m_CDREnd.lCDRSize THEN s
    ELSE ParseRecord([s EXCEPT !.m_CDR_buffer = Overlay(@, at, Zeros(4))],
                     at, at + SizeofCDRFileHeader, fail)

\* lines 483-543 for the record at index at, its signature zeroed
ParseRecord(s, at, pFileName, fail) ==
    LET buf == s.m_CDR_buffer
        nFileNameLength == CDRFileNameLength(buf, at)
        pExtraEnd == pFileName + nFileNameLength + CDRExtraFieldLength(buf, at)
        pEndOfRecord == pExtraEnd + CDRFileCommentLength(buf, at)
    IN  IF CDRVersionNeeded(buf, at) % TwoPow8 > 20
        THEN Throw(s, "UNSUPPORTED", 485)
        ELSE IF pEndOfRecord > s.m_CDREnd.lCDRSize
        THEN Throw(s, "CDR_IS_CORRUPT", 495)
        ELSE ParseCDR(
                 AddRecord(s, at, pFileName, nFileNameLength,
                           ExtraFields(buf, pFileName + nFileNameLength, pExtraEnd,
                                       [time |-> Zeros(8), oob |-> FALSE]),
                           fail),
                 pEndOfRecord, fail)

\* vector::resize: the old content, cut or filled up with zeros
Resize(buf, n) == [k \in 1..n |-> IF k <= Len(buf) THEN buf[k] ELSE 0]

\* CacheFactory::ReadHeaderData of nSize bytes to the start of m_CDR_buffer;
\* s.ok is what it returns
ReadHeaderDataEnd(s) ==
    [s EXCEPT !.m_CDR_buffer = Overlay(@, 0, s.data),
              !.ok = /\ s.ok
                     /\ s.m_encryptedHeaders = HEADERS_NOT_ENCRYPTED
                     /\ s.m_signedHeaders \in {HEADERS_CDR_SIGNED, HEADERS_NOT_SIGNED}]

ReadHeaderData(s, site, nSize, fail) == ReadHeaderDataEnd(Read(s, site, nSize, fail))

\* lines 467-547, s being the state after ReadHeaderData
ParseHeaderData(s, fail) ==
    IF ~s.ok THEN Throw(s, "CORRUPTED_DATA", 469) ELSE ParseCDR(s, 0, fail)

\* lines 452-547, s being the state after the Seek of line 450
ReadCDR(s, fail) ==
    IF s.m_CDREnd.lCDRSize = 0 THEN s
    ELSE IF fail = 459
    THEN [Throw(s, "NO_MEMORY", 463) EXCEPT !.m_CDR_buffer = << >>, !.hit = TRUE]
    ELSE ParseHeaderData(
             ReadHeaderData(
                 [s EXCEPT !.m_CDR_buffer =
                     Resize(@, s.m_CDREnd.lCDRSize + CDRBufferSlack)],
                 467, s.m_CDREnd.lCDRSize, fail),
             fail)

\* CacheFactory::BuildFileEntryMap; Prepare drops what it returns
BuildFileEntryMap(s, fail) ==
    ReadCDR(Seek(s, 450, s.m_CDREnd.lCDROffset, "SEEK_SET", fail), fail)

(***************************************************************************)
(* CacheFactory::Prepare after FindCDREnd (lines 196-305), the rest of     *)
(* ReadCache (lines 168-185) and of New                                    *)
(***************************************************************************)
EncodeExtendedHeader(h) == LE16(h.nHeaderSize) \o LE16(h.nEncryption) \o LE16(h.nSigning)

DecodeExtendedHeader(b) ==
    [nHeaderSize |-> U16At(b, 0), nEncryption |-> U16At(b, 2), nSigning |-> U16At(b, 4)]

\* return false after THROW_ZIPDIR_ERROR
Failed(s, code, line) == [Throw(s, code, line) EXCEPT !.prepared = FALSE]

\* line 296 alone: a faulty variant, which the properties of the CDR's range
\* tell from CDROutOfRange
CDRSumOutOfRange(s) ==
    Above32(Add32(s.m_CDREnd.lCDROffset, s.m_CDREnd.lCDRSize), s.m_nCDREndPos)

\* lines 294-296
CDROutOfRange(s) ==
    \/ Above32(s.m_CDREnd.lCDROffset, s.m_nCDREndPos)
    \/ Above32(s.m_CDREnd.lCDRSize, s.m_nCDREndPos)
    \/ Above32(Add32(s.m_CDREnd.lCDROffset, s.m_CDREnd.lCDRSize), s.m_nCDREndPos)

\* lines 283-304 without the comparison of line 286: a faulty variant, which
\* the properties of multivolume archives tell from PrepareChecks
PrepareChecksOfOneCount(s, fail) ==
    IF \/ s.m_CDREnd.nDisk # 0
       \/ s.m_CDREnd.nCDRStartDisk # 0
    THEN Failed(s, "UNSUPPORTED", 288)
    ELSE IF CDROutOfRange(s)
    THEN Failed(s, "DATA_IS_CORRUPT", 298)
    ELSE [BuildFileEntryMap(s, fail) EXCEPT !.prepared = TRUE]

\* lines 283-304
PrepareChecks(s, fail) ==
    IF \/ s.m_CDREnd.nDisk # 0
       \/ s.m_CDREnd.nCDRStartDisk # 0
       \/ s.m_CDREnd.numEntriesOnDisk # s.m_CDREnd.numEntriesTotal
    THEN Failed(s, "UNSUPPORTED", 288)
    ELSE IF CDROutOfRange(s)
    THEN Failed(s, "DATA_IS_CORRUPT", 298)
    ELSE [BuildFileEntryMap(s, fail) EXCEPT !.prepared = TRUE]

\* lines 266-271, s being the state after the Read of line 266
CheckSignatureHeader(s, fail) ==
    IF s.m_headerSignature.nHeaderSize # SizeofSignedCDRHeader
    THEN Failed(s, "DATA_IS_CORRUPT", 269)
    ELSE PrepareChecks(s, fail)

\* the bytes of m_headerSignature.nHeaderSize after a read of data to the header
ReadSignatureHeader(s) ==
    [s EXCEPT !.m_headerSignature =
        [nHeaderSize |->
            U16At(Overlay(LE16(@.nHeaderSize), 0,
                          SubSeq(s.data, 1, IF Len(s.data) < 2 THEN Len(s.data) ELSE 2)),
                  0)]]

\* lines 222 and 239-254
ExpectedCommentLength(nEncryption, nSigning) ==
    (SizeofExtendedHeader
        + (IF nEncryption = HEADERS_ENCRYPTED_STREAMCIPHER_KEYTABLE
           THEN SizeofEncryptionHeader ELSE 0)
        + (IF nSigning = HEADERS_CDR_SIGNED THEN SizeofSignedCDRHeader ELSE 0))
    % TwoPow16

\* lines 234-280
CheckTechniques(s, fail) ==
    IF s.m_encryptedHeaders \notin
           {HEADERS_NOT_ENCRYPTED, HEADERS_ENCRYPTED_STREAMCIPHER_KEYTABLE}
    THEN Failed(s, "DATA_IS_CORRUPT", 243)
    ELSE IF s.m_signedHeaders \notin {HEADERS_NOT_SIGNED, HEADERS_CDR_SIGNED}
    THEN Failed(s, "DATA_IS_CORRUPT", 258)
    ELSE IF s.m_CDREnd.nCommentLength
                # ExpectedCommentLength(s.m_encryptedHeaders, s.m_signedHeaders)
    THEN Failed(s, "DATA_IS_CORRUPT", 277)
    ELSE IF s.m_signedHeaders = HEADERS_CDR_SIGNED
    THEN CheckSignatureHeader(
             ReadSignatureHeader(Read(s, 266, SizeofSignedCDRHeader, fail)), fail)
    ELSE PrepareChecks(s, fail)

\* lines 211-280, m_headerExtended being as the Read of line 210 left it
CheckExtendedHeader(s, fail) ==
    IF s.m_headerExtended.nHeaderSize # SizeofExtendedHeader
    THEN Failed(s, "DATA_IS_CORRUPT", 214)
    ELSE IF /\ s.m_headerExtended.nEncryption # HEADERS_NOT_ENCRYPTED
            /\ s.m_encryptedHeaders # HEADERS_NOT_ENCRYPTED
    THEN Failed([s EXCEPT !.m_signedHeaders = s.m_headerExtended.nSigning],
                "DATA_IS_CORRUPT", 227)
    ELSE CheckTechniques(
             [s EXCEPT !.m_signedHeaders = s.m_headerExtended.nSigning,
                       !.m_encryptedHeaders = s.m_headerExtended.nEncryption],
             fail)

\* m_headerExtended after a read of data to it
ReadExtendedHeader(s) ==
    [s EXCEPT !.m_headerExtended =
        DecodeExtendedHeader(Overlay(EncodeExtendedHeader(@), 0, s.data))]

\* lines 207-304
PrepareHeaders(s, fail) ==
    IF s.m_CDREnd.nCommentLength >= SizeofExtendedHeader
    THEN CheckExtendedHeader(
             ReadExtendedHeader(
                 Read(Seek(s, 209,
                           Add32(Add32(s.m_CDREnd.lCDROffset, s.m_CDREnd.lCDRSize),
                                 SizeofCDREnd),
                           "SEEK_SET", fail),
                      210, SizeofExtendedHeader, fail)),
             fail)
    ELSE PrepareChecks(s, fail)

\* lines 198-202 left out: a faulty variant, which the properties of archives
\* with the legacy bits tell from LegacyEncryption
LegacyEncryptionIgnored(nDisk, encryptedHeaders) == encryptedHeaders

\* lines 198-202: m_encryptedHeaders after them
LegacyEncryption(nDisk, encryptedHeaders) ==
    IF (nDisk \div LegacyShift) % 4
           \in {HEADERS_ENCRYPTED_TEA, HEADERS_ENCRYPTED_STREAMCIPHER}
    THEN (nDisk \div LegacyShift) % 4
    ELSE encryptedHeaders

\* lines 196-305; s.prepared is what Prepare returns
Prepare(s, fail) ==
    PrepareHeaders(
        [s EXCEPT !.m_encryptedHeaders = LegacyEncryption(s.m_CDREnd.nDisk, @),
                  !.m_CDREnd = [@ EXCEPT !.nDisk = @ % LegacyShift]],
        fail)

\* lines 168-185.  FileEntryList::RefreshEOFOffsets rewrites only the entries'
\* nEOFOffset, which the model does not follow past InitDataOffset.
ReadCacheEnd(s) ==
    [s EXCEPT
        !.pCache = [@ EXCEPT !.m_treeDir = s.m_treeFileEntries,
                             !.m_CDR_buffer = s.m_CDR_buffer,
                             !.m_lCDROffset = s.m_CDREnd.lCDROffset,
                             !.m_encryptedHeaders = s.m_encryptedHeaders,
                             !.m_signedHeaders = s.m_signedHeaders,
                             !.m_headerSignature = s.m_headerSignature,
                             !.m_headerExtended = s.m_headerExtended],
        !.m_treeFileEntries = s.pCache.m_treeDir,
        !.m_CDR_buffer = s.pCache.m_CDR_buffer]

\* lines 163-185 of ReadCache and what New does with its result
ReadCacheOutcome(s) ==
    IF s.prepared THEN ReturnCache(ReadCacheEnd(s)) ELSE ReadCacheFailed(s)

\* the rest of ReadCache and of New once FindCDREnd has found the record
ReadCache ==
    /\ pc = "prepare"
    /\ \E fail \in Faults(PrepareSites) : Becomes(ReadCacheOutcome(Prepare(Cur, fail)))
    /\ UNCHANGED callsLeft

(***************************************************************************)
(* Specifications                                                          *)
(***************************************************************************)
Next == New \/ FindCDREnd \/ ReadCache \/ Destroy

Spec == Init /\ [][Next]_vars

SpecParse == InitParse /\ [][Next]_vars

SpecScan == InitScan /\ [][Next]_vars

SpecVolume == InitVolume /\ [][Next]_vars

SpecRange == InitRange /\ [][Next]_vars

SpecTree == InitTree /\ [][Next]_vars

SpecReopen == InitReopen /\ [][Next]_vars

(***************************************************************************)
(* Properties                                                              *)
(***************************************************************************)
\* an error of the current New was reported at one of the given source lines
Reported(lines) == \E i \in DOMAIN errors : errors[i].line \in lines

\* the last New has returned
Returned == pc = "idle" /\ m_szFilename # NoPath

\* C1: once New has returned, if BuildFileEntryMap reported a failure (no
\* memory for the CDR, the CDR not read or not decodable, a record that needs
\* a version above 2.0, a record ending behind the CDR), New returned no Cache.
C1_ParseFailureReturnsNoCache ==
    (Returned /\ Reported({463, 469, 485, 495})) => ~result.valid

\* C2: once New has returned, if AddFileEntry or InitDataOffset reported a
\* failed validation of an entry, New returned no Cache.
C2_EntryFailureReturnsNoCache ==
    (Returned /\ Reported({558, 564, 620, 631, 645})) => ~result.valid

\* C3: once New has returned, if Seek, Tell or Read reported a failure, New
\* returned no Cache.
C3_IoFailureReturnsNoCache ==
    (Returned /\ Reported({740, 750, 760})) => ~result.valid

\* C7: once the factory is destroyed, every handle it opened is closed or
\* owned by a Cache that New returned.
C7_NoHandleLeaked ==
    pc = "destroyed" => \A h \in DOMAIN handles : handles[h].open => handles[h].cache

(***************************************************************************)
(* What a file holds, read off its bytes without the factory               *)
(***************************************************************************)
\* the file the last New was called on
NamedFile == disk[m_szFilename]

\* the offsets of f at which the four bytes of the CDREnd signature stand
\* (they stand in no part of a file that is all zero)
SignatureOffsets(f) ==
    {p \in UNION {f.patches[k].off..(f.patches[k].off + Len(f.patches[k].bytes) - 1) :
                      k \in DOMAIN f.patches} :
        p <= f.size - 4 /\ FileBytes(f, p, 4) = CDREndSignature}

\* those at which a CDREnd record followed by a comment of up to 0xFFFF bytes
\* can start
SearchedSignatures(f) ==
    {p \in SignatureOffsets(f) :
        p >= LowestScanned(f.size) /\ p <= f.size - SizeofCDREnd}

\* the comment length the record at p would need, and the one it names
CommentRoom(f, p) == f.size - p - SizeofCDREnd
CommentNamed(f, p) == U16At(FileBytes(f, p + 20, 2), 0)

\* C4: if the file New was called on holds the signature at exactly one
\* offset p, with the comment length the file's size asks for, FindCDREnd
\* reports neither a missing nor a corrupt record, and when it has returned
\* true the position it recorded is p and m_CDREnd is the record at p.
C4_OneRecordIsFound ==
    m_szFilename # NoPath =>
        \A p \in SearchedSignatures(NamedFile) :
            (SignatureOffsets(NamedFile) = {p}
                 /\ CommentNamed(NamedFile, p) = CommentRoom(NamedFile, p)) =>
                /\ ~Reported({397, 421})
                /\ pc = "prepare" =>
                       /\ m_nCDREndPos = p
                       /\ m_CDREnd = DecodeCDREnd(FileBytes(NamedFile, p, SizeofCDREnd), 0)

\* C5: if the file New was called on holds no signature at the offsets a
\* record can start at, FindCDREnd neither finds a record nor reports a
\* corrupt one (it ends with the error of line 397).
C5_NoRecordIsNoCdr ==
    (m_szFilename # NoPath /\ SearchedSignatures(NamedFile) = {}
         /\ NamedFile.size >= SizeofCDREnd) =>
        (pc # "prepare" /\ ~Reported({421}))

\* the highest signature a record can start at names a wrong comment length
FirstIsInconsistent(f) ==
    /\ SearchedSignatures(f) # {}
    /\ CommentNamed(f, Max(SearchedSignatures(f)))
           # CommentRoom(f, Max(SearchedSignatures(f)))

\* the only signature of f is that of a record whose comment length is one
\* above or one below what the size of f asks for
OffByOne(f) ==
    \E p \in SignatureOffsets(f) :
        /\ SignatureOffsets(f) = {p}
        /\ p <= f.size - SizeofCDREnd
        /\ CommentNamed(f, p) - CommentRoom(f, p) \in {-1, 1}

\* C6: if the highest signature in the file New was called on names a wrong
\* comment length, or the file's one record names a comment length that is
\* off by one, FindCDREnd neither finds a record nor reports that there is
\* none (it ends with the error of line 421).
C6_InconsistentIsCorrupt ==
    (m_szFilename # NoPath
         /\ (FirstIsInconsistent(NamedFile) \/ OffByOne(NamedFile))) =>
        (pc # "prepare" /\ ~Reported({397}))

\* the factory was made for reading and writing an archive that may exist
ReadWrite == "READ_ONLY" \notin m_nFlags /\ "CREATE_NEW" \notin m_nFlags

\* the step is a call of New on a file that exists and is empty
NewOnEmptyFile ==
    /\ pc = "idle"
    /\ callsLeft' < callsLeft
    /\ disk[m_szFilename'].present
    /\ disk[m_szFilename'].size = 0

\* what the step did was to close the handle it had opened on the file and
\* to return a new, empty Cache on a handle opened for writing, unless that
\* handle could not be opened
TreatedAsNew ==
    /\ pc' = "idle"
    /\ ~Reported({96, 121, 397, 421})'
    /\ Len(handles') > Len(handles)
    /\ handles'[Len(handles) + 1] =
           [name |-> m_szFilename', mode |-> "update", open |-> FALSE, cache |-> FALSE]
    /\ IF result'.valid
       THEN /\ Len(handles') = Len(handles) + 2
            /\ result'.m_fileHandle = Len(handles')
            /\ handles'[Len(handles')] =
                   [name |-> m_szFilename', mode |-> "write", open |-> TRUE, cache |-> TRUE]
            /\ result'.m_treeDir = << >>
            /\ result'.m_lCDROffset = 0
            /\ "CDR_DIRTY" \in result'.m_nFlags
       ELSE Len(handles') = Len(handles) + 1 /\ Reported({146})'

\* New has returned after ReadCache returned false
ReadCacheHasFailed == Returned /\ Reported({121})

\* New returned no Cache, the factory holds the handle it opened for
\* updating, and the file is as it was
ArchiveKept ==
    /\ ~result.valid
    /\ m_fileHandle = Len(handles)
    /\ handles[m_fileHandle] =
           [name |-> m_szFilename, mode |-> "update", open |-> TRUE, cache |-> FALSE]
    /\ disk[m_szFilename] = Catalog[m_szFilename]
    /\ disk[m_szFilename].size > 0

CreatedNew == handles[result.m_fileHandle].mode = "write"

\* the CDR offset in the CDREnd record of file f
RecordedCDROffset(f) ==
    U32At(FileBytes(f, Max(SearchedSignatures(f)) + 16, 4), 0)

\* C9: a Cache that New returned has the read-only flag iff the factory has
\* it; the CDR dirty flag iff the factory is read-only or the archive was
\* created; CDR offset 0 if created, else that of the file's CDREnd record;
\* the no-compaction flag iff the factory has it; and the file's name as its
\* path iff the factory is not told to forget it.
C9_CacheAsConfigured ==
    (Returned /\ result.valid) =>
        /\ "READ_ONLY" \in result.m_nFlags <=> "READ_ONLY" \in m_nFlags
        /\ "CDR_DIRTY" \in result.m_nFlags <=> ("READ_ONLY" \in m_nFlags \/ CreatedNew)
        /\ result.m_lCDROffset =
               IF CreatedNew THEN 0 ELSE RecordedCDROffset(NamedFile)
        /\ "DONT_COMPACT" \in result.m_nFlags <=> "DONT_COMPACT" \in m_nFlags
        /\ result.m_strFilePath = m_szFilename
               <=> "DONT_MEMORIZE_ZIP_PATH" \notin m_nFlags
        /\ result.m_strFilePath \in {m_szFilename, NoPath}

\* C9 happens: a read-only factory told not to compact and to forget the path
\* returned the Cache of an archive whose CDR is not at the start of the file
C9_Reached ==
    /\ Returned /\ result.valid
    /\ {"READ_ONLY", "DONT_COMPACT", "DONT_MEMORIZE_ZIP_PATH"} \subseteq m_nFlags
    /\ result.m_nFlags = {"READ_ONLY", "DONT_COMPACT", "CDR_DIRTY"}
    /\ result.m_strFilePath = NoPath
    /\ result.m_lCDROffset > 0

\* the extended header that stands behind the CDREnd record e of file f
TrailerOf(f, e) ==
    DecodeExtendedHeader(
        FileBytes(f, e.lCDROffset + e.lCDRSize + SizeofCDREnd, SizeofExtendedHeader))

\* the step is the rest of Prepare on a CDREnd record with legacy encryption
\* bits, in which a well-sized extended header naming an encryption is read
LegacyAndExtendedEncryption ==
    /\ pc = "prepare"
    /\ (m_CDREnd.nDisk \div LegacyShift) % 4
           \in {HEADERS_ENCRYPTED_TEA, HEADERS_ENCRYPTED_STREAMCIPHER}
    /\ m_CDREnd.nCommentLength >= SizeofExtendedHeader
    /\ m_headerExtended' = TrailerOf(NamedFile, m_CDREnd)
    /\ m_headerExtended'.nHeaderSize = SizeofExtendedHeader
    /\ m_headerExtended'.nEncryption # HEADERS_NOT_ENCRYPTED

\* C10: when the CDREnd record has legacy encryption bits and a well-sized
\* extended header naming an encryption is read, Prepare reports corrupt
\* data and New returns no Cache.
C10_BothEncryptionsRejected ==
    [][LegacyAndExtendedEncryption =>
          /\ pc' = "idle"
          /\ ~result'.valid
          /\ \E i \in DOMAIN errors' : errors'[i].code = "DATA_IS_CORRUPT"]_vars

\* C10 happens: New returned nothing after the error of line 227
C10_Reached ==
    /\ Returned
    /\ ~result.valid
    /\ Reported({227})
    /\ (Catalog[m_szFilename].size > 0)
    /\ m_headerExtended.nEncryption = HEADERS_ENCRYPTED_STREAMCIPHER_KEYTABLE

\* the CDREnd record of file f: the one at the highest offset a record can
\* start at
RecordAt(f) == Max(SearchedSignatures(f))
RecordOf(f) == DecodeCDREnd(FileBytes(f, RecordAt(f), SizeofCDREnd), 0)

\* New has returned from reading a file that holds a CDREnd record
ReturnedFromReading ==
    /\ Returned
    /\ NamedFile.present
    /\ SearchedSignatures(NamedFile) # {}
    /\ ~(result.valid /\ CreatedNew)

\* the sizes of the headers the extended header t announces
AnnouncedLength(t) ==
    SizeofExtendedHeader
        + (IF t.nEncryption = HEADERS_ENCRYPTED_STREAMCIPHER_KEYTABLE
           THEN SizeofEncryptionHeader ELSE 0)
        + (IF t.nSigning = HEADERS_CDR_SIGNED THEN SizeofSignedCDRHeader ELSE 0)

\* the nHeaderSize of the signature header of file f, which stands behind the
\* extended header t and the encryption header t announces
SignatureHeaderSize(f, t) ==
    U16At(FileBytes(f, RecordOf(f).lCDROffset + RecordOf(f).lCDRSize + SizeofCDREnd
                           + AnnouncedLength(t)
                           - SizeofSignedCDRHeader, 2), 0)

\* the comment area of file f is what its extended header announces
CommentAsAnnounced(f, t) ==
    /\ t.nHeaderSize = SizeofExtendedHeader
    /\ t.nEncryption \in {HEADERS_NOT_ENCRYPTED, HEADERS_ENCRYPTED_STREAMCIPHER_KEYTABLE}
    /\ t.nSigning \in {HEADERS_NOT_SIGNED, HEADERS_CDR_SIGNED}
    /\ RecordOf(f).nCommentLength = AnnouncedLength(t)
    /\ t.nSigning = HEADERS_CDR_SIGNED
           => SignatureHeaderSize(f, t) = SizeofSignedCDRHeader

\* C11: once New has returned from reading a file whose comment is at least
\* as long as an extended header, it returned a Cache only if the header
\* sizes, the techniques and the comment length are what the extended header
\* announces; otherwise no Cache is returned and corrupt data is reported.
C11_CommentIsTheAnnouncedHeaders ==
    (ReturnedFromReading
        /\ RecordOf(NamedFile).nCommentLength >= SizeofExtendedHeader
        /\ ~CommentAsAnnounced(NamedFile, TrailerOf(NamedFile, RecordOf(NamedFile))))
    => /\ ~result.valid
       /\ \E i \in DOMAIN errors : errors[i].code = "DATA_IS_CORRUPT"

\* the CDREnd record e belongs to an archive of several volumes
Multivolume(e) ==
    \/ e.nDisk % LegacyShift # 0
    \/ e.nCDRStartDisk # 0
    \/ e.numEntriesOnDisk # e.numEntriesTotal

\* the comment area of file f passes the checks of the extended header
CommentPasses(f) ==
    \/ RecordOf(f).nCommentLength < SizeofExtendedHeader
    \/ /\ CommentAsAnnounced(f, TrailerOf(f, RecordOf(f)))
       /\ (LegacyEncryption(RecordOf(f).nDisk, HEADERS_NOT_ENCRYPTED)
               = HEADERS_NOT_ENCRYPTED
            \/ TrailerOf(f, RecordOf(f)).nEncryption = HEADERS_NOT_ENCRYPTED)

\* C12: once New has returned from reading a file whose CDREnd record has,
\* in the low 14 bits of nDisk, in nCDRStartDisk or in its two record counts,
\* the mark of a multivolume archive, it returned no Cache; and if the comment
\* area passes the checks of the extended header and no I/O call failed, the
\* error reported is the unsupported archive of line 288.
C12_MultivolumeIsUnsupported ==
    (ReturnedFromReading /\ Multivolume(RecordOf(NamedFile)))
    => /\ ~result.valid
       /\ (CommentPasses(NamedFile) /\ ~Reported({740, 750, 760}))
              => \E i \in DOMAIN errors :
                    errors[i] = [code |-> "UNSUPPORTED", line |-> 288]

\* C12 happens: New returned nothing for the second volume of an archive
\* that has an extended header, reporting it as unsupported
C12_Reached ==
    /\ ReturnedFromReading
    /\ RecordOf(NamedFile).nDisk = 1
    /\ RecordOf(NamedFile).nCommentLength = SizeofExtendedHeader
    /\ ~result.valid
    /\ Reported({288})

\* the CDR that the CDREnd record e names does not lie before offset p (a
\* negative field stands for a value of 2^31 and above)
RangeViolated(e, p) ==
    \/ e.lCDROffset < 0
    \/ e.lCDRSize < 0
    \/ e.lCDROffset > p
    \/ e.lCDRSize > p
    \/ e.lCDROffset > p - e.lCDRSize

\* the Cache that New returned from reading a file names a CDR that lies
\* before the file's CDREnd record
RangeKept ==
    (ReturnedFromReading /\ result.valid)
    => /\ ~RangeViolated(RecordOf(NamedFile), RecordAt(NamedFile))
       /\ result.m_lCDROffset = RecordOf(NamedFile).lCDROffset

\* in this step New returns from reading a file whose CDREnd record names a
\* CDR out of range
ReturnsOutOfRange ==
    /\ pc \in {"scan", "prepare"}
    /\ pc' = "idle"
    /\ disk' = disk
    /\ SearchedSignatures(NamedFile) # {}
    /\ RangeViolated(RecordOf(NamedFile), RecordAt(NamedFile))

\* the step returns no Cache and leaves the CDR buffer and the tree alone
NothingReadOfCDR ==
    /\ ~result'.valid
    /\ m_CDR_buffer' = m_CDR_buffer
    /\ m_treeFileEntries' = m_treeFileEntries
    /\ ~Reported({463, 469})'

CorruptReported == \E i \in DOMAIN errors : errors[i].code = "DATA_IS_CORRUPT"

\* C13 as stated: every Cache that New returns from reading a file names a
\* CDR whose offset, size and their sum (taken without wrapping) are at most
\* the offset of the CDREnd record; and New on a file whose CDREnd record
\* breaks one of the three returns no Cache, reads no byte of the CDR and,
\* no I/O call having failed, reports DATA_IS_CORRUPT.
C13_OutOfRangeIsCorrupt ==
    [][/\ RangeKept
       /\ ReturnsOutOfRange
            => /\ NothingReadOfCDR
               /\ ~Reported({740, 750, 760})' => CorruptReported']_vars

\* C13 amended: as above, but the error is the UNSUPPORTED of line 288 when
\* the CDREnd record has the mark of a multivolume archive and
\* DATA_IS_CORRUPT otherwise.
C13_OutOfRangeIsNoCache ==
    [][/\ RangeKept
       /\ ReturnsOutOfRange
            => /\ NothingReadOfCDR
               /\ ~Reported({740, 750, 760})'
                    => \/ CorruptReported'
                       \/ /\ Multivolume(RecordOf(NamedFile))
                          /\ Reported({288})']_vars

\* C13 happens: New returned nothing, reporting the range, for a file whose
\* CDR would start at 2^31 or above and end, in 32 bits, before the record
C13_Reached ==
    /\ ReturnedFromReading
    /\ RecordOf(NamedFile).lCDROffset < 0
    /\ RecordOf(NamedFile).lCDRSize > 0
    /\ ~result.valid
    /\ Reported({298})

\* the length of the record of file f's CDR at offset at: its header, its
\* name, its extra field and its comment
RecordLength(f, at) ==
    SizeofCDRFileHeader + U16At(FileBytes(f, at + 28, 2), 0)
        + U16At(FileBytes(f, at + 30, 2), 0) + U16At(FileBytes(f, at + 32, 2), 0)

\* the record of file f at offset at is a directory's: its name ends in a
\* separator
DirectoryRecord(f, at) ==
    /\ U16At(FileBytes(f, at + 28, 2), 0) > 0
    /\ IsSeparator(FileByte(f, at + SizeofCDRFileHeader
                                  + U16At(FileBytes(f, at + 28, 2), 0) - 1))

\* the offsets of the records of file f's CDR from offset at up to offset end,
\* each record starting where the one before it ends
RECURSIVE RecordOffsets(_, _, _)
RecordOffsets(f, at, end) ==
    IF at + SizeofCDRFileHeader > end \/ at + RecordLength(f, at) > end
    THEN << >>
    ELSE << at >> \o RecordOffsets(f, at + RecordLength(f, at), end)

\* the offsets of the records of the CDR that file f's CDREnd record names
CDRRecords(f) ==
    RecordOffsets(f, RecordOf(f).lCDROffset,
                  RecordOf(f).lCDROffset + RecordOf(f).lCDRSize)

\* those that are not a directory's
FileRecords(f) ==
    {k \in DOMAIN CDRRecords(f) : ~DirectoryRecord(f, CDRRecords(f)[k])}

\* New returned a Cache from reading a file whose CDR the parser walked to
\* its end, building the tree
WalkedToTheEnd ==
    /\ ReturnedFromReading
    /\ result.valid
    /\ "FILENAMES_AS_CRC32" \notin m_nFlags
    /\ ~Reported({463, 469, 485, 495})

\* C14: once New has returned a Cache from reading a file whose CDR the
\* parser walked to its end, the tree of the Cache has as many leaves as the
\* CDR has records whose name does not end in a separator.
C14_OneLeafPerFileRecord ==
    WalkedToTheEnd => Len(result.m_treeDir) = Cardinality(FileRecords(NamedFile))

\* the byte c of a name as the tree's names have it: capitals lowered, and
\* one kind of separator
Canonical(c) ==
    IF c \in 65..90 THEN c + 32
    ELSE IF c = 92 THEN 47
    ELSE c

\* the length and the bytes of the name of the CDR record of file f whose
\* name starts nameAt bytes into the CDR
NameLengthIn(f, nameAt) ==
    U16At(FileBytes(f, RecordOf(f).lCDROffset + nameAt - SizeofCDRFileHeader + 28, 2), 0)

NameIn(f, nameAt) ==
    FileBytes(f, RecordOf(f).lCDROffset + nameAt, NameLengthIn(f, nameAt))

\* leaf l of the Cache's tree has in the Cache's CDR buffer the canonical
\* name of its record of file f, ended by a NUL
StoredCanonically(l, f) ==
    /\ Slice(result.m_CDR_buffer, l.nameAt, NameLengthIn(f, l.nameAt))
           = [k \in 1..NameLengthIn(f, l.nameAt) |-> Canonical(NameIn(f, l.nameAt)[k])]
    /\ ByteAt(result.m_CDR_buffer, l.nameAt + NameLengthIn(f, l.nameAt)) = 0

\* C15: once New has returned a Cache from reading a file, every leaf of the
\* Cache's tree finds in the Cache's CDR buffer, where its record's name
\* stood, that name with capitals lowered and backslashes turned into
\* slashes, and a NUL right behind it.
C15_NamesAreCanonical ==
    (ReturnedFromReading /\ result.valid)
    => \A k \in DOMAIN result.m_treeDir :
          StoredCanonically(result.m_treeDir[k], NamedFile)

\* C15 happens: the Cache's tree has two leaves; one name had capitals and
\* both separators, and the other is followed in the CDR by its comment
C15_Reached ==
    /\ ReturnedFromReading
    /\ result.valid
    /\ Len(result.m_treeDir) = 2
    /\ NameIn(NamedFile, result.m_treeDir[1].nameAt) = NameD
    /\ result.m_treeDir[1].path = << 100, 47, 101, 47, 102, 46, 116, 120 >>
    /\ result.m_treeDir[2].path = << 100, 47, 98, 46, 98, 105, 110 >>

\* C16: once New has returned a Cache from reading a file, every leaf of the
\* Cache's tree has its local header before the offset of the CDR, and the
\* CDR starts before the end of the file.
C16_HeaderBeforeCDR ==
    (ReturnedFromReading /\ result.valid)
    => \A k \in DOMAIN result.m_treeDir :
          /\ result.m_treeDir[k].entry.nFileHeaderOffset >= 0
          /\ result.m_treeDir[k].entry.nFileHeaderOffset < result.m_lCDROffset
          /\ result.m_lCDROffset < NamedFile.size

\* C17: once New has returned a Cache from reading a file, every leaf of the
\* Cache's tree whose data offset was set has it before the offset of the
\* file's CDREnd record.
C17_DataBeforeCDREnd ==
    (ReturnedFromReading /\ result.valid)
    => \A k \in DOMAIN result.m_treeDir :
          result.m_treeDir[k].entry.nFileDataOffset # INVALID_DATA_OFFSET
          => /\ result.m_treeDir[k].entry.nFileDataOffset >= 0
             /\ result.m_treeDir[k].entry.nFileDataOffset < RecordAt(NamedFile)

\* C18: once a factory constructed with FILENAMES_AS_CRC32 has returned a
\* Cache from reading a file, the tree of the Cache is empty.
C18_NoTreeForCrc32Names ==
    (ReturnedFromReading /\ result.valid /\ "FILENAMES_AS_CRC32" \in m_nFlags)
    => result.m_treeDir = << >>

\* in this step New returns from reading the file from which the New before
\* it returned a Cache; the file has not changed
Reopened ==
    /\ pc \in {"scan", "prepare"}
    /\ pc' = "idle"
    /\ result.valid
    /\ result.m_strFilePath = m_szFilename
    /\ NamedFile = Catalog[m_szFilename]
    /\ disk' = disk

\* the kind of encryption that file f names: in its extended header if it
\* has one, else in the two high bits of nDisk
AnnouncedEncryption(f) ==
    IF RecordOf(f).nCommentLength >= SizeofExtendedHeader
    THEN TrailerOf(f, RecordOf(f)).nEncryption
    ELSE LegacyEncryption(RecordOf(f).nDisk, HEADERS_NOT_ENCRYPTED)

\* the Cache that New returned from reading a file records the kind of
\* encryption the file names, which is what the first New of a factory records
RecordsTheFilesEncryption ==
    (ReturnedFromReading /\ result.valid)
    => result.m_encryptedHeaders = AnnouncedEncryption(NamedFile)

\* C19: with no I/O call failing, a New on the unchanged file from which the
\* New before it, of the same factory, returned a Cache returns a Cache too,
\* with the same tree, the same CDR offset and the same recorded kinds of
\* encryption and signing; and whatever the factory opened before, a Cache
\* records the kind of encryption its file names, as after a first New.
C19_ReopenedIsTheSame ==
    [][/\ RecordsTheFilesEncryption
       /\ Reopened
            => /\ result'.valid
               /\ result'.m_treeDir = result.m_treeDir
               /\ result'.m_lCDROffset = result.m_lCDROffset
               /\ result'.m_encryptedHeaders = result.m_encryptedHeaders
               /\ result'.m_signedHeaders = result.m_signedHeaders]_vars

\* the 16-bit and the 32-bit field at offset at of file f
FileU16(f, at) == U16At(FileBytes(f, at, 2), 0)
FileU32(f, at) == U32At(FileBytes(f, at, 4), 0)

\* the bytes of a name with capitals lowered
Lowered(name) == [k \in DOMAIN name |-> IF name[k] \in 65..90 THEN name[k] + 32 ELSE name[k]]

\* the local file header that file f has at the offset leaf l names agrees
\* with l's entry and with the name of l's CDR record
LocalHeaderAgrees(l, f) ==
    /\ l.entry.nFileHeaderOffset >= 0
    /\ FileU16(f, l.entry.nFileHeaderOffset + 8) = l.entry.nMethod
    /\ FileU32(f, l.entry.nFileHeaderOffset + 14) = l.entry.desc.lCRC32
    /\ FileU32(f, l.entry.nFileHeaderOffset + 18) = l.entry.desc.lSizeCompressed
    /\ FileU32(f, l.entry.nFileHeaderOffset + 22) = l.entry.desc.lSizeUncompressed
    /\ FileU16(f, l.entry.nFileHeaderOffset + 26) = NameLengthIn(f, l.nameAt)
    /\ Lowered(FileBytes(f, l.entry.nFileHeaderOffset + SizeofLocalFileHeader,
                         NameLengthIn(f, l.nameAt)))
           = Lowered(NameIn(f, l.nameAt))

\* where the data of leaf l start by a walk over the local file header, its
\* name and its extra field
WalkedDataOffset(l, f) ==
    l.entry.nFileHeaderOffset + SizeofLocalFileHeader
        + FileU16(f, l.entry.nFileHeaderOffset + 26)
        + FileU16(f, l.entry.nFileHeaderOffset + 28)

\* C20: once New has returned from reading a file a Cache that records no
\* encryption, every leaf of the Cache's tree names a local file header that
\* agrees with the leaf's entry and its record's name, and has as its data
\* offset the offset behind that header, its name and its extra field.  (It
\* is stated for each init method of the factory, the default one included.)
C20_LocalHeaderChecked ==
    (ReturnedFromReading /\ result.valid
        /\ result.m_encryptedHeaders = HEADERS_NOT_ENCRYPTED)
    => \A k \in DOMAIN result.m_treeDir :
          /\ LocalHeaderAgrees(result.m_treeDir[k], NamedFile)
          /\ result.m_treeDir[k].entry.nFileDataOffset
                 = WalkedDataOffset(result.m_treeDir[k], NamedFile)

\* C21: once a factory of init method full has returned from reading a file
\* a Cache that records no encryption, every leaf of the Cache's tree has as
\* its data offset its local header offset plus the size of a local file
\* header plus the length of the name in its CDR record, whatever the local
\* file header says.
C21_DataOffsetFromCDR ==
    (ReturnedFromReading /\ result.valid /\ m_nInitMethod = ZD_INIT_FULL
        /\ result.m_encryptedHeaders = HEADERS_NOT_ENCRYPTED)
    => \A k \in DOMAIN result.m_treeDir :
          result.m_treeDir[k].entry.nFileDataOffset
              = result.m_treeDir[k].entry.nFileHeaderOffset + SizeofLocalFileHeader
                    + NameLengthIn(NamedFile, result.m_treeDir[k].nameAt)

\* New returned from reading a file in which FindCDREnd located the CDREnd
\* record, and the record announces a comment that can hold an extended header
TrailerDecoded ==
    /\ ReturnedFromReading
    /\ ~Reported({397, 421, 740, 750, 760})
    /\ m_nCDREndPos = RecordAt(NamedFile)
    /\ m_CDREnd.nCommentLength >= SizeofExtendedHeader

\* Prepare went on to read the signature header
SignatureDecoded ==
    /\ TrailerDecoded
    /\ ~Reported({214, 227, 243, 258, 277})
    /\ m_signedHeaders = HEADERS_CDR_SIGNED

\* C22: once New has returned from reading a file whose located CDREnd
\* record announces a comment of at least the size of an extended header,
\* m_headerExtended holds the bytes that stand right behind the record; and
\* if Prepare read a signature header, its nHeaderSize holds the bytes that
\* stand where the last header of the comment area starts, behind the
\* extended header and the encryption header if there is one.
C22_TrailersReadInPlace ==
    /\ TrailerDecoded
         => m_headerExtended
               = DecodeExtendedHeader(
                     FileBytes(NamedFile, m_nCDREndPos + SizeofCDREnd,
                               SizeofExtendedHeader))
    /\ SignatureDecoded
         => m_headerSignature.nHeaderSize
               = FileU16(NamedFile, m_nCDREndPos + SizeofCDREnd
                                        + m_CDREnd.nCommentLength - SizeofSignedCDRHeader)


\* C23: no access of BuildFileEntryMap leaves m_CDR_buffer, the lCDRSize + 16
\* bytes of line 459, whatever the CDR holds: not the read of a record
\* header, of an extra field's header or of the last-modify time of an NTFS
\* extra field, not the zeroing of a signature, the normalising of a name or
\* the NUL stored behind it.
C23_AccessesInsideBuffer == memoryFault = FALSE


\* Prepare has read, behind a CDREnd record whose nDisk names an encryption
\* of older archives in its two high bits, a well-sized extended header that
\* names no encryption
LegacyKindAndPlainTrailer ==
    /\ TrailerDecoded
    /\ LegacyEncryption(RecordOf(NamedFile).nDisk, HEADERS_NOT_ENCRYPTED)
           # HEADERS_NOT_ENCRYPTED
    /\ m_headerExtended.nHeaderSize = SizeofExtendedHeader
    /\ m_headerExtended.nEncryption = HEADERS_NOT_ENCRYPTED

\* C24: when the two high bits of the CDREnd record's nDisk name TEA or the
\* stream cipher and the extended header names no encryption, the kind of
\* encryption that Prepare leaves in the factory, and that a Cache made of it
\* records, is the kind the bits name, not HEADERS_NOT_ENCRYPTED.
C24_LegacyKindKept ==
    LegacyKindAndPlainTrailer
        => /\ m_encryptedHeaders
                = LegacyEncryption(RecordOf(NamedFile).nDisk, HEADERS_NOT_ENCRYPTED)
           /\ result.valid
                => result.m_encryptedHeaders
                      = LegacyEncryption(RecordOf(NamedFile).nDisk, HEADERS_NOT_ENCRYPTED)


(***************************************************************************)
(* ModernViewportCameraControllerInstance: UpdateViewport and              *)
(* InterpolateToTransform.  The cameras and transforms are outside the     *)
(* model; it follows the mode, the animation's time and the flag that      *)
(* guards the view matrix handler.                                         *)
(*                                                                         *)
(* m_animationT and the delta time are floats.  The model's floats are     *)
(* binary floats like those of the build, with FloatDigits digits in       *)
(* place of 24, their values counted in units of 1 / FloatOne, the         *)
(* smallest positive one; a sum is rounded to the nearest float, a tie to  *)
(* the one whose last digit is even.                                       *)
(***************************************************************************)
FloatDigits == 3
FloatScale == 6
MaxInterpolateCalls == 2

\* 1.0f
FloatOne == 2 ^ FloatScale

\* the distance between the floats next to x >= 0
RECURSIVE FloatSpacing(_)
FloatSpacing(x) == IF x < 2 ^ FloatDigits THEN 1 ELSE 2 * FloatSpacing(x \div 2)

\* the float nearest to x >= 0, of step the distance between the floats there
NearestEven(x, step) ==
    IF 2 * (x % step) < step \/ (2 * (x % step) = step /\ (x \div step) % 2 = 0)
    THEN (x \div step) * step
    ELSE (x \div step + 1) * step

\* a + b of floats a >= 0 and b >= 0
FloatAdd(a, b) == NearestEven(a + b, FloatSpacing(a + b))

\* AZ::GetClamp
GetClamp(value, min, max) ==
    IF value < min THEN min ELSE IF value > max THEN max ELSE value

\* the delta times of update events: none, the smallest float, the distance
\* between the floats below 1.0f, and two seconds
DeltaTimes == { 0, 1, 2 ^ (FloatScale - FloatDigits), 2 * FloatOne }

\* the priorities of update events
Priorities == { "Highest", "Normal" }

factoryVars == << pc, envVars, configVars, memberVars, pCache, memoryFault, scanVars >>

CameraCur ==
    [m_cameraMode |-> m_cameraMode, m_animationT |-> m_animationT,
     m_updatingTransform |-> m_updatingTransform,
     m_lookAtAfterInterpolation |-> m_lookAtAfterInterpolation]

CameraBecomes(c) ==
    /\ m_cameraMode' = c.m_cameraMode
    /\ m_animationT' = c.m_animationT
    /\ m_updatingTransform' = c.m_updatingTransform
    /\ m_lookAtAfterInterpolation' = c.m_lookAtAfterInterpolation
    /\ UNCHANGED factoryVars

\* lines 157-202; lookedAway is what the test of lines 166-168 finds.  The
\* handler of lines 96-103, which SetCameraTransform calls, finds
\* m_updatingTransform set and leaves the cameras alone.
UpdateCameras(c, m_deltaTime, lookedAway) ==
    IF c.m_cameraMode = "Control"
    THEN [c EXCEPT !.m_lookAtAfterInterpolation = @ /\ ~lookedAway]
    ELSE [c EXCEPT !.m_cameraMode = IF c.m_animationT >= FloatOne
                                    THEN "Control" ELSE @,
                   !.m_animationT = GetClamp(FloatAdd(@, m_deltaTime), 0, FloatOne)]

\* ModernViewportCameraControllerInstance::UpdateViewport
UpdateViewportOutcome(c, m_priority, m_deltaTime, lookedAway) ==
    IF m_priority # "Normal" THEN c
    ELSE IF ~viewportContext THEN c
    ELSE [UpdateCameras([c EXCEPT !.m_updatingTransform = TRUE],
                        m_deltaTime, lookedAway)
             EXCEPT !.m_updatingTransform = FALSE]

\* an update event of the given priority and delta time is delivered
UpdateEvent(m_priority, m_deltaTime) ==
    /\ \E lookedAway \in BOOLEAN :
          CameraBecomes(UpdateViewportOutcome(CameraCur, m_priority, m_deltaTime,
                                              lookedAway))
    /\ updates' = 1 - updates
    /\ UNCHANGED << viewportContext, interpolationsLeft >>

UpdateViewport ==
    \E m_priority \in Priorities : \E m_deltaTime \in DeltaTimes :
        UpdateEvent(m_priority, m_deltaTime)

\* ModernViewportCameraControllerInstance::InterpolateToTransform
InterpolateToTransform ==
    /\ interpolationsLeft > 0
    /\ CameraBecomes([CameraCur EXCEPT !.m_animationT = 0,
                                       !.m_cameraMode = "Animation",
                                       !.m_lookAtAfterInterpolation = TRUE])
    /\ interpolationsLeft' = interpolationsLeft - 1
    /\ UNCHANGED << viewportContext, updates >>

\* the viewport's context is added to or removed from the context manager
ViewportContextChanges ==
    /\ viewportContext' = ~viewportContext
    /\ UNCHANGED << m_cameraMode, m_animationT, m_updatingTransform,
                    m_lookAtAfterInterpolation, interpolationsLeft, updates >>
    /\ UNCHANGED factoryVars

\* a camera controller, and a factory that is not used
InitCamera ==
    /\ FactoryConstructed({}, { {} }, 0, 0)
    /\ m_nInitMethod = ZD_INIT_FAST
    /\ m_headerSignature.nHeaderSize = 0
    /\ CameraConstructed(BOOLEAN, MaxInterpolateCalls)

NextCamera == UpdateViewport \/ InterpolateToTransform \/ ViewportContextChanges

SpecCamera == InitCamera /\ [][NextCamera]_vars

\* update events of normal priority and positive delta time keep arriving
TimelyUpdate ==
    \E m_deltaTime \in { d \in DeltaTimes : d > 0 } : UpdateEvent("Normal", m_deltaTime)

SpecCameraTimely == SpecCamera /\ WF_vars(TimelyUpdate)

\* this step is UpdateViewport switching back to the camera's control
SwitchesBack == m_cameraMode = "Animation" /\ m_cameraMode' = "Control"

\* C25: as long as the viewport's context is there and update events of
\* normal priority and positive delta time keep arriving, an animation that
\* InterpolateToTransform has started ends: the mode becomes Control again.
\* All the while m_animationT is between 0 and 1, the mode switches back
\* only in an update that finds m_animationT at 1 or above, and
\* m_updatingTransform is false between the calls of UpdateViewport.
C25_AnimationEnds ==
    /\ [](m_animationT \in 0..FloatOne /\ ~m_updatingTransform)
    /\ [][SwitchesBack => m_animationT >= FloatOne]_vars
    /\ []([]viewportContext => (m_cameraMode = "Animation" => <>(m_cameraMode = "Control")))

====
